---------------------------- MODULE Spec2Model ----------------------------
(***************************************************************************)
(* Floor-plan editor: the geometry kernel (utils.ts), the placement        *)
(* validator, the bulk wall-segment solver and the undo/redo history of    *)
(* the App component.                                                      *)
(*                                                                         *)
(* Numbers.  Every length and coordinate is an integer number of inches    *)
(* (1 ft = UNITS_PER_FOOT units).  The inputs the model draws are dyadic   *)
(* or whole-inch values on which the source's floating point arithmetic    *)
(* is exact up to errors far below its 0.01 ft and 0.5 ft thresholds.      *)
(* Object widths and lengths are drawn even, so that w / 2 is exact.       *)
(*                                                                         *)
(* Identifiers.  Math.random().toString(36).substr(2, 9) is modelled by a  *)
(* counter (idCounter): every generated id is fresh.  NULL_ID stands for   *)
(* null / undefined ids.                                                   *)
(***************************************************************************)
EXTENDS Integers, Sequences, FiniteSets, TLC

VARIABLES
    rooms,          \* useState<Room[]>            (App, line 51)
    history,        \* useState<Room[][]>          (App, line 52)
    historyIndex,   \* useState(-1), 0-based cursor (App, line 53)
    activeRoomId,   \* useState<string | null>     (App, line 94)
    objectLibrary,  \* useState<ObjectDefinition[]> (App, line 95)
    mousePos,       \* useState<Point>             (App, line 135)
    idCounter,      \* number of ids generated so far
    reader,         \* the FileReader of handleImportJSON, with what its onload closure captured
    mode,           \* useState('select'), the tool in use (App, line 96)
    drawingPoints,  \* useState<Point[]>, the boundary being drawn (App, line 128)
    download,       \* the file the last a.click() of handleExportJSON saved (App, lines 317-323)
    lastEvent,      \* the handler that ran last, with its argument
    call,           \* harness: the arguments of a call of a pure function
    ret             \* harness: the value the call returned

vars == <<rooms, history, historyIndex, activeRoomId, objectLibrary, mousePos,
          idCounter, reader, mode, drawingPoints, lastEvent, call, ret, download>>

appVars == <<rooms, history, historyIndex, activeRoomId, objectLibrary, mousePos,
             idCounter, reader, mode, drawingPoints, lastEvent, download>>

-----------------------------------------------------------------------------
(* Units and small helpers *)

UNITS_PER_FOOT == 12

GRID_SIZE == 1 * UNITS_PER_FOOT

NULL_ID == 0

Ft(n) == n * UNITS_PER_FOOT

Abs(n) == IF n < 0 THEN 0 - n ELSE n

Pt(px, py) == [x |-> px, y |-> py]

RECURSIVE SeqSum(_)
SeqSum(s) == IF s = <<>> THEN 0 ELSE Head(s) + SeqSum(Tail(s))

RECURSIVE MinOf(_)
MinOf(s) == IF Len(s) = 1 THEN s[1]
            ELSE LET m == MinOf(Tail(s)) IN IF s[1] < m THEN s[1] ELSE m

\* Math.round(val / GRID_SIZE) * GRID_SIZE: nearest grid line, ties upward
snapToGrid(val) == ((2 * val + GRID_SIZE) \div (2 * GRID_SIZE)) * GRID_SIZE

-----------------------------------------------------------------------------
(* Geometry kernel (utils.ts) *)

\* Math.abs(area) / 2 of the shoelace sum; exact when the sum is even
RECURSIVE ShoelaceSum(_, _)
ShoelaceSum(points, i) ==
    IF i > Len(points) THEN 0
    ELSE LET j == (i % Len(points)) + 1
         IN  points[i].x * points[j].y - points[j].x * points[i].y
             + ShoelaceSum(points, i + 1)

calculatePolygonArea(points) == Abs(ShoelaceSum(points, 1)) \div 2

\* as getObjectRect, but turned only at 90
getObjectRectTurnedAt90Only(obj, def) ==
    LET isRotated == obj.rotation = 90
        w == IF isRotated THEN def.length ELSE def.width
        l == IF isRotated THEN def.width ELSE def.length
    IN  [x |-> obj.x - (w \div 2), y |-> obj.y - (l \div 2), width |-> w, height |-> l]

getObjectRect(obj, def) ==
    LET isRotated == obj.rotation = 90 \/ obj.rotation = 270
        w == IF isRotated THEN def.length ELSE def.width
        l == IF isRotated THEN def.width ELSE def.length
    IN  [x |-> obj.x - (w \div 2), y |-> obj.y - (l \div 2), width |-> w, height |-> l]

\* as checkRectOverlap, but touching edges count
checkRectOverlapClosed(r1, r2) ==
    ~ (\/ r2.x > r1.x + r1.width
       \/ r2.x + r2.width < r1.x
       \/ r2.y > r1.y + r1.height
       \/ r2.y + r2.height < r1.y)

checkRectOverlap(r1, r2) ==
    ~ (\/ r2.x >= r1.x + r1.width
       \/ r2.x + r2.width <= r1.x
       \/ r2.y >= r1.y + r1.height
       \/ r2.y + r2.height <= r1.y)

\* px < (xj - xi) * (py - yi) / (yj - yi) + xi for yj # yi, without the division
RayHitsEdge(px, py, xi, yi, xj, yj) ==
    IF yj - yi > 0 THEN (px - xi) * (yj - yi) < (xj - xi) * (py - yi)
    ELSE (px - xi) * (yj - yi) > (xj - xi) * (py - yi)

\* the loop of isPointInPolygon from index i on (j is the index before i)
RECURSIVE InsideFrom(_, _, _, _, _)
InsideFrom(point, polygon, i, j, inside) ==
    IF i > Len(polygon) THEN inside
    ELSE LET xi == polygon[i].x
             yi == polygon[i].y
             xj == polygon[j].x
             yj == polygon[j].y
             intersect == /\ (yi > point.y) # (yj > point.y)
                          /\ RayHitsEdge(point.x, point.y, xi, yi, xj, yj)
         IN  InsideFrom(point, polygon, i + 1, i, IF intersect THEN ~ inside ELSE inside)

isPointInPolygon(point, polygon) ==
    InsideFrom(point, polygon, 1, Len(polygon), FALSE)

isRectInPolygon(rect, polygon) ==
    LET corners == << Pt(rect.x, rect.y),
                      Pt(rect.x + rect.width, rect.y),
                      Pt(rect.x, rect.y + rect.height),
                      Pt(rect.x + rect.width, rect.y + rect.height) >>
    IN  \A c \in 1..4 : isPointInPolygon(corners[c], polygon)

\* 0 < num / det < 1 for det # 0, without the division
StrictlyInUnit(num, det) ==
    IF det > 0 THEN 0 < num /\ num < det ELSE num < 0 /\ det < num

doLinesIntersect(a, b, c, d) ==
    LET det == (b.x - a.x) * (d.y - c.y) - (b.y - a.y) * (d.x - c.x)
        lambdaNum == (d.y - c.y) * (d.x - a.x) + (c.x - d.x) * (d.y - a.y)
        gammaNum == (a.y - b.y) * (d.x - a.x) + (b.x - a.x) * (d.y - a.y)
    IN  IF det = 0 THEN FALSE
        ELSE StrictlyInUnit(lambdaNum, det) /\ StrictlyInUnit(gammaNum, det)

lineIntersectRect(p1, p2, rect) ==
    LET left == rect.x
        right == rect.x + rect.width
        top == rect.y
        bottom == rect.y + rect.height
        lines == << <<Pt(left, top), Pt(right, top)>>,
                    <<Pt(right, top), Pt(right, bottom)>>,
                    <<Pt(right, bottom), Pt(left, bottom)>>,
                    <<Pt(left, bottom), Pt(left, top)>> >>
    IN  IF p1.x >= left /\ p1.x <= right /\ p1.y >= top /\ p1.y <= bottom THEN TRUE
        ELSE IF p2.x >= left /\ p2.x <= right /\ p2.y >= top /\ p2.y <= bottom THEN TRUE
        ELSE \E i \in 1..4 : doLinesIntersect(p1, p2, lines[i][1], lines[i][2])

-----------------------------------------------------------------------------
(* Placement validator (App.isValidPlacement) *)

\* objectLibrary.find(d => d.id === id): index of the first match, 0 for undefined
RECURSIVE FindDefFrom(_, _, _)
FindDefFrom(lib, id, i) ==
    IF i > Len(lib) THEN 0
    ELSE IF lib[i].id = id THEN i
    ELSE FindDefFrom(lib, id, i + 1)

FindDef(lib, id) == FindDefFrom(lib, id, 1)

\* a mutation of SkipsOther: the candidate's own entry in the room is not skipped
SkipsOtherExcludeOnly(other, obj, excludeId) == other.id = excludeId

\* if (other.id === excludeId || other.id === obj.id) continue;
SkipsOther(other, obj, excludeId) == other.id = excludeId \/ other.id = obj.id

\* loop 1 of isValidPlacement from index i on: TRUE when no object makes it return false
RECURSIVE ObjectsClearFrom(_, _, _, _, _, _)
ObjectsClearFrom(lib, obj, rect, objects, excludeId, i) ==
    IF i > Len(objects) THEN TRUE
    ELSE LET other == objects[i]
             k == FindDef(lib, other.definitionId)
         IN  IF SkipsOther(other, obj, excludeId)
                 THEN ObjectsClearFrom(lib, obj, rect, objects, excludeId, i + 1)
             ELSE IF k = 0
                 THEN ObjectsClearFrom(lib, obj, rect, objects, excludeId, i + 1)
             ELSE IF checkRectOverlap(rect, getObjectRect(other, lib[k])) THEN FALSE
             ELSE ObjectsClearFrom(lib, obj, rect, objects, excludeId, i + 1)

\* loop 2 of isValidPlacement
RECURSIVE WallsClearFrom(_, _, _)
WallsClearFrom(rect, tempWalls, i) ==
    IF i > Len(tempWalls) THEN TRUE
    ELSE IF lineIntersectRect(tempWalls[i].start, tempWalls[i].end, rect) THEN FALSE
    ELSE WallsClearFrom(rect, tempWalls, i + 1)

\* the rectangle checks of isValidPlacement, once the definition is resolved
PlacementClear(lib, obj, rect, room, excludeId) ==
    IF ~ ObjectsClearFrom(lib, obj, rect, room.objects, excludeId, 1) THEN FALSE
    ELSE IF ~ WallsClearFrom(rect, room.tempWalls, 1) THEN FALSE
    ELSE TRUE

\* a mutation of isValidPlacementIn: an unresolved definition is not rejected
isValidPlacementInNoDefCheck(lib, obj, room, excludeId) ==
    LET k == FindDef(lib, obj.definitionId)
    IN  IF k = 0 THEN TRUE
        ELSE PlacementClear(lib, obj, getObjectRect(obj, lib[k]), room, excludeId)

\* a mutation of isValidPlacementIn: the footprint must also lie in the room polygon
isValidPlacementInContained(lib, obj, room, excludeId) ==
    LET k == FindDef(lib, obj.definitionId)
    IN  IF k = 0 THEN FALSE
        ELSE /\ isRectInPolygon(getObjectRect(obj, lib[k]), room.points)
             /\ PlacementClear(lib, obj, getObjectRect(obj, lib[k]), room, excludeId)

isValidPlacementIn(lib, obj, room, excludeId) ==
    LET k == FindDef(lib, obj.definitionId)
    IN  IF k = 0 THEN FALSE
        ELSE PlacementClear(lib, obj, getObjectRect(obj, lib[k]), room, excludeId)

isValidPlacement(obj, room, excludeId) ==
    isValidPlacementIn(objectLibrary, obj, room, excludeId)

-----------------------------------------------------------------------------
(* Values the model draws its inputs from *)

MaxObjects == 2

MaxWalls == 1

Def(i, n, w, l, t) == [id |-> i, name |-> n, width |-> w, length |-> l, type |-> t]

Obj(i, d, px, py, r) == [id |-> i, definitionId |-> d, x |-> px, y |-> py, rotation |-> r]

Wall(i, x1, y1, x2, y2) == [id |-> i, start |-> Pt(x1, y1), end |-> Pt(x2, y2)]

Room(i, n, pts, objs, walls) ==
    [id |-> i, name |-> n, points |-> pts, objects |-> objs, tempWalls |-> walls]

\* the definition the initial load adds when the library holds no door
DefaultDoor == Def("default-door", "Standard Door", Ft(3), Ft(3), "door")

Desk == Def("d1", "Desk", Ft(4), Ft(2), "standard")

Box == Def("d2", "Box", Ft(2), Ft(2), "standard")

Libraries == { <<DefaultDoor, Desk, Box>>, <<DefaultDoor, Desk>> }

\* boundary polygons: none, a 10 ft square, a 2 ft square
PointLists ==
    { <<>>,
      << Pt(0, 0), Pt(Ft(10), 0), Pt(Ft(10), Ft(10)), Pt(0, Ft(10)) >>,
      << Pt(0, 0), Pt(Ft(2), 0), Pt(Ft(2), Ft(2)), Pt(0, Ft(2)) >> }

\* placed objects of a stored room; "dX" is a definition id no library holds
StoredObjects ==
    { Obj(1, "d1", Ft(2), Ft(2), 0),
      Obj(2, "d2", Ft(4), Ft(2), 0),
      Obj(3, "d2", Ft(2), Ft(4), 0),
      Obj(3, "dX", Ft(2), Ft(2), 0) }

\* temp walls of a stored room: through the middle, along the diagonal of the
\* 2 ft box at (2 ft, 2 ft), along its right edge, a slanted crossing, far away
StoredWalls ==
    { Wall(11, 0, Ft(2), Ft(4), Ft(2)),
      Wall(12, 0, 0, Ft(4), Ft(4)),
      Wall(13, Ft(3), 0 - Ft(1), Ft(3), Ft(5)),
      Wall(14, 0, Ft(1), Ft(4), Ft(3)),
      Wall(15, Ft(20), Ft(20), Ft(24), Ft(20)) }

\* sequences over S of length at most n
SeqsUpTo(S, n) == UNION { [1..k -> S] : k \in 0..n }

DistinctIds(s) == \A i, j \in DOMAIN s : i # j => s[i].id # s[j].id

ObjectLists == { s \in SeqsUpTo(StoredObjects, MaxObjects) : DistinctIds(s) }

WallLists == { s \in SeqsUpTo(StoredWalls, MaxWalls) : DistinctIds(s) }

Candidates ==
    { Obj(i, d, Ft(2), Ft(2), r) : i \in {1, 2}, d \in {"d1", "d2"}, r \in {0, 90} }

-----------------------------------------------------------------------------
(* The harness for calls of pure functions *)

NoCall == [fn |-> "none"]

NoRet == [done |-> FALSE, val |-> FALSE]

NoReader == [busy |-> FALSE]

NoDownload == [saved |-> FALSE]

\* the application state the harness specifications leave alone
AppIdle(lib) ==
    /\ rooms = <<>>
    /\ history = << <<>> >>
    /\ historyIndex = 0
    /\ activeRoomId = NULL_ID
    /\ objectLibrary = lib
    /\ mousePos = Pt(0, 0)
    /\ idCounter = 0
    /\ reader = NoReader
    /\ mode = "select"
    /\ drawingPoints = <<>>
    /\ download = NoDownload
    /\ lastEvent = [op |-> "load", arg |-> 0]

InitValid ==
    /\ \E lib \in Libraries : AppIdle(lib)
    /\ \E c \in Candidates, objs \in ObjectLists, walls \in WallLists,
          pts \in PointLists, ex \in {NULL_ID, 1, 2} :
          call = [fn |-> "isValidPlacement", obj |-> c,
                  room |-> Room(7, <<"Room", 7>>, pts, objs, walls), excludeId |-> ex]
    /\ ret = NoRet

CallIsValidPlacement ==
    /\ call.fn = "isValidPlacement"
    /\ ~ ret.done
    /\ ret' = [done |-> TRUE, val |-> isValidPlacement(call.obj, call.room, call.excludeId)]
    /\ UNCHANGED <<appVars, call>>

NextValid == CallIsValidPlacement

SpecValid == InitValid /\ [][NextValid]_vars

-----------------------------------------------------------------------------
(* Claims about isValidPlacement, checked under SpecValid *)

Resolves(definitionId) == \E i \in DOMAIN objectLibrary : objectLibrary[i].id = definitionId

DefOf(definitionId) ==
    objectLibrary[CHOOSE i \in DOMAIN objectLibrary :
                     /\ objectLibrary[i].id = definitionId
                     /\ \A j \in 1..(i - 1) : objectLibrary[j].id # definitionId]

CandidateRect == getObjectRect(call.obj, DefOf(call.obj.definitionId))

\* the objects of the room the candidate collides with
Colliding ==
    { i \in DOMAIN call.room.objects :
        LET other == call.room.objects[i]
        IN  /\ other.id # call.excludeId
            /\ other.id # call.obj.id
            /\ Resolves(other.definitionId)
            /\ checkRectOverlap(CandidateRect, getObjectRect(other, DefOf(other.definitionId))) }

\* the objects of the room that are ignored although their footprint overlaps
IgnoredOverlaps ==
    { i \in DOMAIN call.room.objects :
        LET other == call.room.objects[i]
        IN  /\ other.id = call.excludeId \/ other.id = call.obj.id
            /\ Resolves(other.definitionId)
            /\ checkRectOverlap(CandidateRect, getObjectRect(other, DefOf(other.definitionId))) }

ValidCallDone == call.fn = "isValidPlacement" /\ ret.done

\* C2: for a candidate whose definition resolves, isValidPlacement is false
\* whenever the footprint overlaps another object of the room (objects with the
\* excluded id or the candidate's id ignored, unresolved objects skipped), and
\* with no temp wall it is false only then.
C2_OverlapDecides ==
    (ValidCallDone /\ Resolves(call.obj.definitionId)) =>
        /\ (Colliding # {}) => (ret.val = FALSE)
        /\ (Colliding = {} /\ call.room.tempWalls = <<>>) => (ret.val = TRUE)

C2_Witness ==
    /\ ValidCallDone
    /\ Resolves(call.obj.definitionId)
    /\ call.room.tempWalls = <<>>
    /\ IgnoredOverlaps # {}
    /\ \E i \in DOMAIN call.room.objects : ~ Resolves(call.room.objects[i].definitionId)
    /\ ret.val = TRUE

\* a fraction n / d with d > 0
Frac(n, d) == IF d < 0 THEN <<0 - n, 0 - d>> ELSE <<n, d>>

\* the parameters at which the line through p1 and p2 meets the lines carrying
\* the sides of rect, together with the segment's own ends 0 and 1
CriticalParams(p1, p2, rect) ==
    LET dx == p2.x - p1.x
        dy == p2.y - p1.y
    IN  { <<0, 1>>, <<1, 1>> }
        \cup (IF dx = 0 THEN {}
              ELSE { Frac(rect.x - p1.x, dx), Frac(rect.x + rect.width - p1.x, dx) })
        \cup (IF dy = 0 THEN {}
              ELSE { Frac(rect.y - p1.y, dy), Frac(rect.y + rect.height - p1.y, dy) })

\* the point p1 + (n / d) (p2 - p1), 0 <= n / d <= 1, lies strictly inside rect
ParamStrictlyInside(p1, p2, rect, n, d) ==
    /\ 0 <= n /\ n <= d
    /\ rect.x * d < p1.x * d + n * (p2.x - p1.x)
    /\ p1.x * d + n * (p2.x - p1.x) < (rect.x + rect.width) * d
    /\ rect.y * d < p1.y * d + n * (p2.y - p1.y)
    /\ p1.y * d + n * (p2.y - p1.y) < (rect.y + rect.height) * d

\* some point of the segment p1 p2 lies strictly inside rect: the points that do
\* form an open interval of parameters between two critical ones, so the middle
\* of two critical parameters is among them
SegmentCrossesInterior(p1, p2, rect) ==
    \E a, b \in CriticalParams(p1, p2, rect) :
        ParamStrictlyInside(p1, p2, rect, a[1] * b[2] + b[1] * a[2], 2 * a[2] * b[2])

CrossingWalls ==
    { i \in DOMAIN call.room.tempWalls :
        SegmentCrossesInterior(call.room.tempWalls[i].start, call.room.tempWalls[i].end,
                               CandidateRect) }

\* C3: isValidPlacement is false for every candidate whose footprint is crossed
\* by a temp wall of the room (some point of the wall strictly inside the
\* footprint), whatever the wall's direction.
C3_CrossingWallRejects ==
    (ValidCallDone /\ Resolves(call.obj.definitionId) /\ CrossingWalls # {}) =>
        (ret.val = FALSE)

\* C4: isValidPlacement is false for every candidate whose definitionId is the
\* id of no definition of the library, whatever the room holds.
C4_UnresolvedRejects ==
    (ValidCallDone /\ ~ Resolves(call.obj.definitionId)) => (ret.val = FALSE)

C4_Witness ==
    /\ ValidCallDone
    /\ ~ Resolves(call.obj.definitionId)
    /\ call.room.objects # <<>>
    /\ ret.val = FALSE

\* C5: the boundary polygon does not matter: the call returns the same value
\* for every other boundary of the room, and a candidate that collides with no
\* object and no temp wall is valid also when it is not inside the polygon.
C5_BoundaryIgnored ==
    ValidCallDone =>
        /\ \A pts \in PointLists :
              isValidPlacement(call.obj, [call.room EXCEPT !.points = pts], call.excludeId)
                  = ret.val
        /\ ( /\ Resolves(call.obj.definitionId)
             /\ Colliding = {}
             /\ \A i \in DOMAIN call.room.tempWalls :
                   ~ lineIntersectRect(call.room.tempWalls[i].start,
                                       call.room.tempWalls[i].end, CandidateRect) )
           => (ret.val = TRUE)

C5_Witness ==
    /\ ValidCallDone
    /\ Resolves(call.obj.definitionId)
    /\ Len(call.room.points) >= 3
    /\ ~ isRectInPolygon(CandidateRect, call.room.points)
    /\ ret.val = TRUE

-----------------------------------------------------------------------------
(* Wall segment solver (App.handleBulkWallInput, solveDirections) *)

SEARCH_LIMIT == 12

RECURSIVE Pow2(_)
Pow2(n) == IF n = 0 THEN 1 ELSE 2 * Pow2(n - 1)

\* (i & (1 << j)) ? 1 : -1
Dir(i, j) == IF (i \div Pow2(j)) % 2 = 1 THEN 1 ELSE 0 - 1

\* the sum the inner loop builds for combination i
RECURSIVE SignedSumFrom(_, _, _)
SignedSumFrom(segs, i, j) ==
    IF j >= Len(segs) THEN 0
    ELSE segs[j + 1].length * Dir(i, j) + SignedSumFrom(segs, i, j + 1)

\* Math.abs(sum) < 0.01 (feet)
NearZero(sum) == 100 * Abs(sum) < UNITS_PER_FOOT

\* a mutation of solveDirections: the search is skipped, every sign is positive
solveDirectionsAllPositive(segs) == [j \in 1..Len(segs) |-> segs[j].length]

\* a mutation of solveDirections: the search gives up above 10 segments
solveDirectionsUpTo10(segs) ==
    LET n == Len(segs)
        fallback == [j \in 1..n |-> segs[j].length]
    IN  IF n > 10 THEN fallback
        ELSE LET hits == { i \in 0..(Pow2(n) - 1) : NearZero(SignedSumFrom(segs, i, 0)) }
             IN  IF hits = {} THEN fallback
                 ELSE LET first == CHOOSE i \in hits : \A k \in hits : i <= k
                      IN  [j \in 1..n |-> segs[j].length * Dir(first, j - 1)]

solveDirections(segs) ==
    LET n == Len(segs)
        fallback == [j \in 1..n |-> segs[j].length]
    IN  IF n > SEARCH_LIMIT THEN fallback
        ELSE LET hits == { i \in 0..(Pow2(n) - 1) : NearZero(SignedSumFrom(segs, i, 0)) }
             IN  IF hits = {} THEN fallback
                 ELSE LET first == CHOOSE i \in hits : \A k \in hits : i <= k
                      IN  [j \in 1..n |-> segs[j].length * Dir(first, j - 1)]

\* the lines of the text area that parse: <feet> <inches> <H|V>
IsSegmentLine(line) == line.orientation \in {"H", "V"}

ParseSegments(lines) ==
    LET kept == SelectSeq(lines, IsSegmentLine)
    IN  [k \in DOMAIN kept |->
            [length |-> kept[k].feet * UNITS_PER_FOOT + kept[k].inches,
             orientation |-> kept[k].orientation]]

IsH(seg) == seg.orientation = "H"

IsV(seg) == seg.orientation = "V"

\* the points pushed by the walk over segments i.., from the point current
RECURSIVE WalkFrom(_, _, _, _, _, _, _)
WalkFrom(segments, hLengths, vLengths, i, hIdx, vIdx, current) ==
    IF i > Len(segments) THEN <<>>
    ELSE LET isH == segments[i].orientation = "H"
             length == IF isH THEN hLengths[hIdx] ELSE vLengths[vIdx]
             next == IF isH THEN Pt(current.x + length, current.y)
                     ELSE Pt(current.x, current.y + length)
         IN  <<next>> \o WalkFrom(segments, hLengths, vLengths, i + 1,
                                  IF isH THEN hIdx + 1 ELSE hIdx,
                                  IF isH THEN vIdx ELSE vIdx + 1, next)

\* a variant of NormalizedPoints: the shifted points are not snapped to the grid
NormalizedPointsUnsnapped(segments, mouse) ==
    LET start == Pt(snapToGrid(mouse.x), snapToGrid(mouse.y))
        hLengths == solveDirections(SelectSeq(segments, IsH))
        vLengths == solveDirections(SelectSeq(segments, IsV))
        points == <<start>> \o WalkFrom(segments, hLengths, vLengths, 1, 1, 1, start)
        minX == MinOf([k \in DOMAIN points |-> points[k].x])
        minY == MinOf([k \in DOMAIN points |-> points[k].y])
    IN  [k \in DOMAIN points |->
            Pt(points[k].x + Ft(10) - minX, points[k].y + Ft(10) - minY)]

\* normalizedPoints of handleBulkWallInput for the given segments and cursor
NormalizedPoints(segments, mouse) ==
    LET start == Pt(snapToGrid(mouse.x), snapToGrid(mouse.y))
        hLengths == solveDirections(SelectSeq(segments, IsH))
        vLengths == solveDirections(SelectSeq(segments, IsV))
        points == <<start>> \o WalkFrom(segments, hLengths, vLengths, 1, 1, 1, start)
        minX == MinOf([k \in DOMAIN points |-> points[k].x])
        minY == MinOf([k \in DOMAIN points |-> points[k].y])
        offsetX == Ft(10) - minX
        offsetY == Ft(10) - minY
    IN  [k \in DOMAIN points |->
            Pt(snapToGrid(points[k].x + offsetX), snapToGrid(points[k].y + offsetY))]

\* distToStart < 1 (foot), squared
ClosesPath(np) ==
    LET dx == np[Len(np)].x - np[1].x
        dy == np[Len(np)].y - np[1].y
    IN  dx * dx + dy * dy < UNITS_PER_FOOT * UNITS_PER_FOOT

-----------------------------------------------------------------------------
(* Application state: history, rooms, library (App) *)

HISTORY_LIMIT == 50

LAST_INDEX == 49

\* rooms after setRoomsState(undefined): the next render throws, no handler runs again
UndefinedRooms == << Room(NULL_ID, <<"undefined", 0>>, <<>>, <<>>, <<>>) >>

Alive == rooms # UndefinedRooms

Min2(a, b) == IF a < b THEN a ELSE b

\* the updater addToHistory hands to setHistory; closureIndex is the historyIndex
\* the addToHistory in use was created with
HistoryPush(prev, closureIndex, newRooms) ==
    LET nextHistory == Append(SubSeq(prev, 1, Min2(closureIndex + 1, Len(prev))), newRooms)
    IN  IF Len(nextHistory) > HISTORY_LIMIT THEN Tail(nextHistory) ELSE nextHistory

\* the updater addToHistory hands to setHistoryIndex
IndexPush(prev) == IF prev + 1 > LAST_INDEX THEN LAST_INDEX ELSE prev + 1

\* setRooms(newRooms) of a handler created when historyIndex was closureIndex
SetRoomsWith(closureIndex, newRooms) ==
    /\ rooms' = newRooms
    /\ history' = HistoryPush(history, closureIndex, newRooms)
    /\ historyIndex' = IndexPush(historyIndex)

setRooms(newRooms) == SetRoomsWith(historyIndex, newRooms)

\* rooms.find(r => r.id === activeRoomId) || null: its index, 0 for null
RECURSIVE FindRoomFrom(_, _, _)
FindRoomFrom(rms, id, i) ==
    IF i > Len(rms) THEN 0
    ELSE IF rms[i].id = id THEN i
    ELSE FindRoomFrom(rms, id, i + 1)

ActiveIndex == FindRoomFrom(rooms, activeRoomId, 1)

HasActiveRoom == ActiveIndex # 0

activeRoom == rooms[ActiveIndex]

\* objects.find(o => o.id === id): its index, 0 for undefined
RECURSIVE FindObjFrom(_, _, _)
FindObjFrom(objs, id, i) ==
    IF i > Len(objs) THEN 0
    ELSE IF objs[i].id = id THEN i
    ELSE FindObjFrom(objs, id, i + 1)

\* the objects the canvas renders, which carry the drag and rotate handlers
RenderedObjectIds ==
    IF ~ Alive \/ ~ HasActiveRoom THEN {}
    ELSE { activeRoom.objects[i].id : i \in
             { k \in DOMAIN activeRoom.objects :
                 FindDef(objectLibrary, activeRoom.objects[k].definitionId) # 0 } }

-----------------------------------------------------------------------------
(* Handlers (App) *)

undo ==
    /\ Alive
    /\ IF historyIndex > 0
       THEN /\ rooms' = IF historyIndex <= Len(history) THEN history[historyIndex]
                        ELSE UndefinedRooms
            /\ historyIndex' = historyIndex - 1
            /\ UNCHANGED history
       ELSE UNCHANGED <<rooms, history, historyIndex>>
    /\ UNCHANGED <<activeRoomId, objectLibrary, mousePos, idCounter, reader, call, ret, download, mode, drawingPoints>>

redo ==
    /\ Alive
    /\ IF historyIndex < Len(history) - 1
       THEN /\ rooms' = history[historyIndex + 2]
            /\ historyIndex' = historyIndex + 1
            /\ UNCHANGED history
       ELSE UNCHANGED <<rooms, history, historyIndex>>
    /\ UNCHANGED <<activeRoomId, objectLibrary, mousePos, idCounter, reader, call, ret, download, mode, drawingPoints>>

\* onClick={() => setActiveRoomId(room.id)} of the room list
selectRoom(id) ==
    /\ Alive
    /\ activeRoomId' = id
    /\ UNCHANGED <<rooms, history, historyIndex, objectLibrary, mousePos, idCounter,
                   reader, call, ret, download, mode, drawingPoints>>

handleMouseMove(p) ==
    /\ Alive
    /\ mousePos' = p
    /\ UNCHANGED <<rooms, history, historyIndex, activeRoomId, objectLibrary, idCounter,
                   reader, call, ret, download, mode, drawingPoints>>

handleCreateRoom ==
    /\ Alive
    /\ LET newRoom == Room(idCounter + 1, <<"New Room", Len(rooms) + 1>>, <<>>, <<>>, <<>>)
       IN  /\ setRooms(Append(rooms, newRoom))
           /\ activeRoomId' = newRoom.id
    /\ mode' = "draw-room"
    /\ drawingPoints' = <<>>
    /\ idCounter' = idCounter + 1
    /\ UNCHANGED <<objectLibrary, mousePos, reader, call, ret, download>>

handleDeleteRoom(id) ==
    /\ Alive
    /\ LET newRooms == SelectSeq(rooms, LAMBDA r : r.id # id)
       IN  /\ setRooms(newRooms)
           /\ activeRoomId' =
                 IF activeRoomId = id
                 THEN (IF Len(newRooms) > 0 THEN newRooms[1].id ELSE NULL_ID)
                 ELSE activeRoomId
    /\ UNCHANGED <<objectLibrary, mousePos, idCounter, reader, call, ret, download, mode, drawingPoints>>

handleObjectDrop(def, x, y) ==
    /\ Alive
    /\ IF ~ HasActiveRoom
       THEN UNCHANGED <<rooms, history, historyIndex, idCounter>>
       ELSE LET newObj == Obj(idCounter + 1, def.id, x, y, 0)
            IN  /\ setRooms([i \in DOMAIN rooms |->
                       IF rooms[i].id = activeRoomId
                       THEN [rooms[i] EXCEPT !.objects = Append(@, newObj)]
                       ELSE rooms[i]])
                /\ idCounter' = idCounter + 1
    /\ UNCHANGED <<activeRoomId, objectLibrary, mousePos, reader, call, ret, download, mode, drawingPoints>>

\* selected stands for selectedObjectIds, the multi-selection at the time of the drag
handleObjectDragEnd(id, newX, newY, selected) ==
    /\ Alive
    /\ IF ~ HasActiveRoom
       THEN UNCHANGED <<rooms, history, historyIndex>>
       ELSE LET k == FindObjFrom(activeRoom.objects, id, 1)
            IN  IF k = 0
                THEN UNCHANGED <<rooms, history, historyIndex>>
                ELSE LET obj == activeRoom.objects[k]
                         dx == newX - obj.x
                         dy == newY - obj.y
                         moved(o) ==
                             IF id \in selected /\ o.id \in selected /\ o.id # id
                                 THEN [o EXCEPT !.x = o.x + dx, !.y = o.y + dy]
                             ELSE IF o.id = id THEN [o EXCEPT !.x = newX, !.y = newY]
                             ELSE o
                     IN  setRooms([i \in DOMAIN rooms |->
                             IF rooms[i].id = activeRoomId
                             THEN [rooms[i] EXCEPT !.objects =
                                      [j \in DOMAIN rooms[i].objects |-> moved(rooms[i].objects[j])]]
                             ELSE rooms[i]])
    /\ UNCHANGED <<activeRoomId, objectLibrary, mousePos, idCounter, reader, call, ret, download, mode, drawingPoints>>

\* a mutation of handleRotate: the rotation is committed without asking isValidPlacement
handleRotateUnchecked(id) ==
    /\ Alive
    /\ IF ~ HasActiveRoom
       THEN UNCHANGED <<rooms, history, historyIndex>>
       ELSE LET k == FindObjFrom(activeRoom.objects, id, 1)
            IN  IF k = 0
                THEN UNCHANGED <<rooms, history, historyIndex>>
                ELSE setRooms([i \in DOMAIN rooms |->
                         IF rooms[i].id = activeRoomId
                         THEN [rooms[i] EXCEPT !.objects =
                                  [j \in DOMAIN rooms[i].objects |->
                                      IF rooms[i].objects[j].id = id
                                      THEN [activeRoom.objects[k] EXCEPT
                                               !.rotation = (@ + 90) % 360]
                                      ELSE rooms[i].objects[j]]]
                         ELSE rooms[i]])
    /\ UNCHANGED <<activeRoomId, objectLibrary, mousePos, idCounter, reader, call, ret, download, mode, drawingPoints>>

\* as handleRotate, but the angle is not reduced modulo 360
handleRotateNoWrap(id) ==
    /\ Alive
    /\ IF ~ HasActiveRoom
       THEN UNCHANGED <<rooms, history, historyIndex>>
       ELSE LET k == FindObjFrom(activeRoom.objects, id, 1)
            IN  IF k = 0
                THEN UNCHANGED <<rooms, history, historyIndex>>
                ELSE LET obj == activeRoom.objects[k]
                         nextRotation == obj.rotation + 90
                         updatedObj == [obj EXCEPT !.rotation = nextRotation]
                     IN  IF isValidPlacement(updatedObj, activeRoom, id)
                         THEN setRooms([i \in DOMAIN rooms |->
                                  IF rooms[i].id = activeRoomId
                                  THEN [rooms[i] EXCEPT !.objects =
                                           [j \in DOMAIN rooms[i].objects |->
                                               IF rooms[i].objects[j].id = id THEN updatedObj
                                               ELSE rooms[i].objects[j]]]
                                  ELSE rooms[i]])
                         ELSE UNCHANGED <<rooms, history, historyIndex>>
    /\ UNCHANGED <<activeRoomId, objectLibrary, mousePos, idCounter, reader, call, ret, download, mode, drawingPoints>>

handleRotate(id) ==
    /\ Alive
    /\ IF ~ HasActiveRoom
       THEN UNCHANGED <<rooms, history, historyIndex>>
       ELSE LET k == FindObjFrom(activeRoom.objects, id, 1)
            IN  IF k = 0
                THEN UNCHANGED <<rooms, history, historyIndex>>
                ELSE LET obj == activeRoom.objects[k]
                         nextRotation == (obj.rotation + 90) % 360
                         updatedObj == [obj EXCEPT !.rotation = nextRotation]
                     IN  IF isValidPlacement(updatedObj, activeRoom, id)
                         THEN setRooms([i \in DOMAIN rooms |->
                                  IF rooms[i].id = activeRoomId
                                  THEN [rooms[i] EXCEPT !.objects =
                                           [j \in DOMAIN rooms[i].objects |->
                                               IF rooms[i].objects[j].id = id THEN updatedObj
                                               ELSE rooms[i].objects[j]]]
                                  ELSE rooms[i]])
                         ELSE UNCHANGED <<rooms, history, historyIndex>>
    /\ UNCHANGED <<activeRoomId, objectLibrary, mousePos, idCounter, reader, call, ret, download, mode, drawingPoints>>

\* lines stands for bulkInputText, one record per line of the text area
handleBulkWallInput(lines) ==
    /\ Alive
    /\ LET segments == ParseSegments(lines)
       IN  IF Len(segments) = 0
           THEN UNCHANGED <<rooms, history, historyIndex, activeRoomId, idCounter>>
           ELSE LET np == NormalizedPoints(segments, mousePos)
                    newWalls == [i \in 1..(Len(np) - 1) |->
                                    [id |-> idCounter + i, start |-> np[i], end |-> np[i + 1]]]
                IN  IF ClosesPath(np)
                    THEN LET newRoom == Room(idCounter + 1, <<"Bulk Room", Len(rooms) + 1>>,
                                             SubSeq(np, 1, Len(np) - 1), <<>>, <<>>)
                         IN  /\ setRooms(Append(rooms, newRoom))
                             /\ activeRoomId' = newRoom.id
                             /\ idCounter' = idCounter + 1
                    ELSE IF activeRoomId # NULL_ID
                    THEN /\ setRooms([i \in DOMAIN rooms |->
                                IF rooms[i].id = activeRoomId
                                THEN [rooms[i] EXCEPT !.tempWalls = @ \o newWalls]
                                ELSE rooms[i]])
                         /\ idCounter' = idCounter + Len(newWalls)
                         /\ UNCHANGED activeRoomId
                    ELSE LET newRoom == Room(idCounter + Len(newWalls) + 1,
                                             <<"Imported Walls", 0>>, <<>>, <<>>, newWalls)
                         IN  /\ setRooms(Append(rooms, newRoom))
                             /\ activeRoomId' = newRoom.id
                             /\ idCounter' = idCounter + Len(newWalls) + 1
    /\ UNCHANGED <<objectLibrary, mousePos, reader, call, ret, download, mode, drawingPoints>>

\* the user picks file: the reader starts, its onload keeps the rooms and the
\* setRooms (with its historyIndex) of the render the handler belongs to
handleImportJSON(file) ==
    /\ Alive
    /\ ~ reader.busy
    /\ reader' = [busy |-> TRUE, file |-> file, rooms |-> rooms, historyIndex |-> historyIndex]
    /\ UNCHANGED <<rooms, history, historyIndex, activeRoomId, objectLibrary, mousePos,
                   idCounter, call, ret, download, mode, drawingPoints>>

\* the forEach of the library merge, from imported definition i on
RECURSIVE MergeLibraryFrom(_, _, _)
MergeLibraryFrom(newLibrary, imported, i) ==
    IF i > Len(imported) THEN newLibrary
    ELSE IF \E j \in DOMAIN newLibrary : newLibrary[j].id = imported[i].id
         THEN MergeLibraryFrom(newLibrary, imported, i + 1)
         ELSE MergeLibraryFrom(Append(newLibrary, imported[i]), imported, i + 1)

\* reader.onload
readerOnload ==
    /\ Alive
    /\ reader.busy
    /\ LET roomToImport == [reader.file.room EXCEPT !.id = idCounter + 1]
       IN  /\ objectLibrary' = IF reader.file.wrapped
                               THEN MergeLibraryFrom(objectLibrary, reader.file.library, 1)
                               ELSE objectLibrary
           /\ SetRoomsWith(reader.historyIndex, Append(reader.rooms, roomToImport))
           /\ activeRoomId' = roomToImport.id
    /\ idCounter' = idCounter + 1
    /\ reader' = NoReader
    /\ UNCHANGED <<mousePos, call, ret, download, mode, drawingPoints>>

-----------------------------------------------------------------------------
(* The initial load effect and the specifications of the application *)

MaxHistory == 3

MaxRooms == 2

MaxSide == 2

MaxIds == 5

RECURSIVE MaxOf(_)
MaxOf(S) == IF S = {} THEN 0
            ELSE LET x == CHOOSE x \in S : TRUE
                     m == MaxOf(S \ {x})
                 IN  IF x > m THEN x ELSE m

\* the ids a stored room list uses; generated ids are fresh with respect to them
UsedIds(rms) ==
    UNION { {rms[i].id}
            \cup { rms[i].objects[j].id : j \in DOMAIN rms[i].objects }
            \cup { rms[i].tempWalls[j].id : j \in DOMAIN rms[i].tempWalls } : i \in DOMAIN rms }

\* what localStorage holds: nothing, a desk next to a box, a desk next to a wall
SavedNothing == [rooms |-> <<>>, library |-> <<>>]

SavedDeskAndBox ==
    [rooms |-> << Room(1, <<"Office", 1>>, <<>>,
                       << Obj(2, "d1", Ft(2), Ft(2), 0), Obj(3, "d2", Ft(2), Ft(4), 0) >>,
                       <<>>) >>,
     library |-> <<Desk, Box>>]

SavedDeskAndWall ==
    [rooms |-> << Room(1, <<"Office", 1>>, << Pt(0, 0), Pt(Ft(10), 0), Pt(Ft(10), Ft(10)), Pt(0, Ft(10)) >>,
                       << Obj(2, "d1", Ft(2), Ft(2), 0) >>,
                       << Wall(3, Ft(2), Ft(3) + 6, Ft(2), Ft(6)) >>) >>,
     library |-> <<DefaultDoor, Desk>>]

SavedBox ==
    [rooms |-> << Room(1, <<"Office", 1>>, <<>>, << Obj(2, "d2", Ft(6), Ft(2), 0) >>, <<>>) >>,
     library |-> <<DefaultDoor, Box>>]

SavedStates == { SavedNothing, SavedDeskAndBox, SavedDeskAndWall }

\* the mount effect of App
Load(saved) ==
    /\ rooms = saved.rooms
    /\ objectLibrary =
          IF \E i \in DOMAIN saved.library : saved.library[i].type = "door"
          THEN saved.library
          ELSE Append(saved.library, DefaultDoor)
    /\ activeRoomId = IF Len(saved.rooms) > 0 THEN saved.rooms[1].id ELSE NULL_ID
    /\ history = << saved.rooms >>
    /\ historyIndex = 0
    /\ mousePos = Pt(0, 0)
    /\ idCounter = MaxOf(UsedIds(saved.rooms))
    /\ reader = NoReader
    /\ mode = "select"
    /\ drawingPoints = <<>>
    /\ download = NoDownload
    /\ lastEvent = [op |-> "load", arg |-> 0]
    /\ call = NoCall
    /\ ret = NoRet

Init == \E saved \in SavedStates : Load(saved)

\* inputs of the handlers
DropPoints == { Pt(Ft(2), Ft(2)), Pt(Ft(6), Ft(2)) }

MousePoints == { Pt(0, 0), Pt(Ft(3) + 6, 0 - (Ft(2) + 6)) }

Line(f, i, o) == [feet |-> f, inches |-> i, orientation |-> o]

Rectangle(a, b) == << Line(a, 0, "H"), Line(b, 0, "V"), Line(a, 0, "H"), Line(b, 0, "V") >>

BulkTexts ==
    { Rectangle(a, b) : a, b \in 1..MaxSide }
    \cup { << Line(5, 0, "H") >>,
           << Line(1, 6, "H"), Line(2, 0, "V"), Line(1, 6, "H"), Line(2, 0, "x") >>,
           << Line(2, 0, "x") >>,
           << Line(0, 5, "H"), Line(2, 7, "V") >>,
           << Line(5, 0, "H"), Line(5, 0, "H") >> }

\* an exported room with its library, and a bare room
ImportedShelf == Def("d3", "Shelf", Ft(6), Ft(2), "standard")

\* a definition under the id of Box with another name and size
ImportedBox == Def("d2", "Big box", Ft(3), Ft(3), "standard")

WrappedFile ==
    [wrapped |-> TRUE,
     room |-> Room(1, <<"Office", 1>>, <<>>, << Obj(2, "d3", Ft(3), Ft(3), 0) >>, <<>>),
     library |-> <<ImportedShelf, ImportedBox>>]

BareFile ==
    [wrapped |-> FALSE,
     room |-> Room(1, <<"Bare", 1>>, <<>>, <<>>, <<>>),
     library |-> <<>>]

ImportFiles == { WrappedFile, BareFile }

ActiveObjectCount == IF HasActiveRoom THEN Len(activeRoom.objects) ELSE 0

\* the specification notes which handler ran last, and on what
Observe(op, arg) == lastEvent' = [op |-> op, arg |-> arg]

\* the bound on the recorded mutations the specification explores
CanRecord == historyIndex + 1 < MaxHistory

\* the bound on the identifiers the specification lets the handlers generate
CanCreate == idCounter < MaxIds

Next ==
    \/ undo /\ Observe("undo", 0)
    \/ redo /\ Observe("redo", 0)
    \/ CanRecord /\ CanCreate /\ ActiveObjectCount < MaxObjects
         /\ \E d \in DOMAIN objectLibrary, p \in DropPoints :
               handleObjectDrop(objectLibrary[d], p.x, p.y) /\ Observe("handleObjectDrop", 0)
    \/ CanRecord /\ \E id \in RenderedObjectIds, p \in DropPoints,
                       selected \in {{}, RenderedObjectIds} :
                       handleObjectDragEnd(id, p.x, p.y, selected)
                           /\ Observe("handleObjectDragEnd", 0)
    \/ CanRecord /\ \E id \in RenderedObjectIds :
                       handleRotate(id) /\ Observe("handleRotate", id)
    \/ CanRecord /\ CanCreate /\ Len(rooms) < MaxRooms
         /\ handleCreateRoom /\ Observe("handleCreateRoom", 0)
    \/ CanRecord /\ \E i \in DOMAIN rooms :
                       handleDeleteRoom(rooms[i].id) /\ Observe("handleDeleteRoom", 0)
    \/ \E i \in DOMAIN rooms : selectRoom(rooms[i].id) /\ Observe("selectRoom", 0)

Spec == Init /\ [][Next]_vars

\* the wall tools: the pointer moves over the canvas, room lists are typed in
InitBulk == \E saved \in {SavedNothing, SavedDeskAndWall} : Load(saved)

NextBulk ==
    \/ \E p \in MousePoints : handleMouseMove(p) /\ Observe("handleMouseMove", 0)
    \/ CanRecord /\ CanCreate /\ Len(rooms) < MaxRooms
         /\ \E lines \in BulkTexts :
               handleBulkWallInput(lines) /\ Observe("handleBulkWallInput", lines)

SpecBulk == InitBulk /\ [][NextBulk]_vars

\* the wall tools together with undo
NextBulkUndo ==
    \/ \E p \in MousePoints : handleMouseMove(p) /\ Observe("handleMouseMove", 0)
    \/ CanRecord /\ CanCreate /\ Len(rooms) < MaxRooms
         /\ \E lines \in BulkTexts :
               handleBulkWallInput(lines) /\ Observe("handleBulkWallInput", lines)
    \/ undo /\ Observe("undo", 0)

SpecBulkUndo == InitBulk /\ [][NextBulkUndo]_vars

-----------------------------------------------------------------------------
(* Claims on the object handlers, checked under Spec *)

\* the active room's object id, and the room list with that object replaced
ActiveObject(id) == activeRoom.objects[FindObjFrom(activeRoom.objects, id, 1)]

Rotated(obj) == [obj EXCEPT !.rotation = (obj.rotation + 90) % 360]

RoomsWithActiveObject(id, newObj) ==
    [i \in DOMAIN rooms |->
        IF i = ActiveIndex
        THEN [rooms[i] EXCEPT !.objects[FindObjFrom(activeRoom.objects, id, 1)] = newObj]
        ELSE rooms[i]]

\* C1: a rotate request commits the object turned by 90 degrees exactly when
\* isValidPlacement accepts the turned object against the room as it was
\* before the request, the object itself excluded; a rejected rotation leaves
\* rooms, history and historyIndex as they were.
C1_RotateValidatesThenCommits ==
    [][ lastEvent'.op = "handleRotate" =>
          LET id == lastEvent'.arg
              turned == Rotated(ActiveObject(id))
          IN  IF isValidPlacement(turned, activeRoom, id)
              THEN /\ rooms' = RoomsWithActiveObject(id, turned)
                   /\ history'[historyIndex' + 1] = rooms'
              ELSE UNCHANGED <<rooms, history, historyIndex>> ]_vars

\* a rotate request was the last thing to happen, it asked for a turn the
\* validator rejects, and nothing was ever recorded
C1_Witness ==
    /\ lastEvent.op = "handleRotate"
    /\ HasActiveRoom
    /\ lastEvent.arg \in RenderedObjectIds
    /\ ~ isValidPlacement(Rotated(ActiveObject(lastEvent.arg)), activeRoom, lastEvent.arg)
    /\ Len(history) = 1
    /\ historyIndex = 0

-----------------------------------------------------------------------------
(* Claims on bulk wall input, checked under SpecBulk *)

\* C10: the four lines a H, b V, a H, b V with whole-foot sides close: bulk
\* input appends one room, makes it the active room, gives it a boundary of
\* exactly 4 points with polygon area a*b, and adds no temp wall anywhere.
C10_RectangleBecomesRoom ==
    [][ \A a, b \in 1..MaxSide :
          (lastEvent'.op = "handleBulkWallInput" /\ lastEvent'.arg = Rectangle(a, b)) =>
              /\ Len(rooms') = Len(rooms) + 1
              /\ SubSeq(rooms', 1, Len(rooms)) = rooms
              /\ LET newRoom == rooms'[Len(rooms')]
                 IN  /\ Len(newRoom.points) = 4
                     /\ calculatePolygonArea(newRoom.points) = Ft(a) * Ft(b)
                     /\ newRoom.tempWalls = <<>>
                     /\ newRoom.objects = <<>>
                     /\ activeRoomId' = newRoom.id
                     /\ \A i \in DOMAIN rooms : rooms[i].id # newRoom.id ]_vars

\* a 1 ft by 2 ft rectangle typed with the pointer away from the origin has
\* become the active room
C10_Witness ==
    /\ lastEvent.op = "handleBulkWallInput"
    /\ lastEvent.arg = Rectangle(1, 2)
    /\ mousePos # Pt(0, 0)
    /\ HasActiveRoom
    /\ ActiveIndex = Len(rooms)
    /\ Len(activeRoom.points) = 4
    /\ calculatePolygonArea(activeRoom.points) = Ft(1) * Ft(2)
    /\ activeRoom.tempWalls = <<>>

-----------------------------------------------------------------------------
(* The direction solver on its own: one call of solveDirections per behaviour *)

MaxSegs == 3

\* segment lengths in inches: half a foot up to two feet
SegLengths == { 6, 12, 18, 24 }

Seg(len) == [length |-> len, orientation |-> "H"]

\* k segments of one foot after a first segment of the given length
LongList(first, k) == [j \in 1..(k + 1) |-> IF j = 1 THEN Seg(first) ELSE Seg(UNITS_PER_FOOT)]

\* short lists of every shape, and long ones on both sides of the search limit
SegmentLists ==
    { [j \in 1..Len(q) |-> Seg(q[j])] : q \in SeqsUpTo(SegLengths, MaxSegs) }
    \cup { LongList(UNITS_PER_FOOT, SEARCH_LIMIT - 2),
           LongList(UNITS_PER_FOOT, SEARCH_LIMIT - 1),
           LongList(6, SEARCH_LIMIT - 1),
           LongList(2 * UNITS_PER_FOOT, SEARCH_LIMIT),
           LongList(UNITS_PER_FOOT, SEARCH_LIMIT + 1) }

InitSolve ==
    /\ AppIdle(<<>>)
    /\ call \in { [fn |-> "solveDirections", segs |-> segs] : segs \in SegmentLists }
    /\ ret = NoRet

CallSolveDirections ==
    /\ call.fn = "solveDirections"
    /\ ~ ret.done
    /\ ret' = [done |-> TRUE, val |-> solveDirections(call.segs)]
    /\ UNCHANGED <<appVars, call>>

NextSolve == CallSolveDirections

SpecSolve == InitSolve /\ [][NextSolve]_vars

SolveCallDone == call.fn = "solveDirections" /\ ret.done

\* the sum of the lengths of the segments whose position is in S
RECURSIVE LengthOver(_, _)
LengthOver(segs, S) ==
    IF S = {} THEN 0
    ELSE LET j == CHOOSE j \in S : TRUE
         IN  segs[j].length + LengthOver(segs, S \ {j})

\* some choice of the segments to walk backwards brings the walk within
\* 0.01 ft of its start
Closable(segs) ==
    \E back \in SUBSET DOMAIN segs :
        NearZero(LengthOver(segs, DOMAIN segs \ back) - LengthOver(segs, back))

\* C9: with at most 12 segments the result sums to within 0.01 ft of zero
\* whenever some sign assignment does, every segment keeping its magnitude and
\* its position; when no assignment does, or with more than 12 segments, every
\* segment comes back with a positive sign.
C9_SolverExhaustiveUpTo12 ==
    SolveCallDone =>
        LET segs == call.segs
            n == Len(segs)
            out == ret.val
        IN  /\ Len(out) = n
            /\ \A j \in 1..n : Abs(out[j]) = segs[j].length
            /\ IF n <= SEARCH_LIMIT /\ Closable(segs)
               THEN NearZero(SeqSum(out))
               ELSE \A j \in 1..n : out[j] = segs[j].length

\* twelve one-foot segments were solved: six of them walk backwards
C9_Witness ==
    /\ SolveCallDone
    /\ Len(call.segs) = SEARCH_LIMIT
    /\ SeqSum(ret.val) = 0
    /\ Cardinality({ j \in DOMAIN ret.val : ret.val[j] < 0 }) = 6

-----------------------------------------------------------------------------
(* The history buffer: one box dragged back and forth, undo, redo, and the
   import of a room file, whose reader completes whenever it completes *)

MaxImports == 1

InitHist == Load(SavedBox)

CanImport == idCounter < MaxOf(UsedIds(SavedBox.rooms)) + MaxImports

\* the user drags a rendered object to the other of the two drop points
DragAway ==
    \E id \in RenderedObjectIds, p \in DropPoints :
        /\ Pt(ActiveObject(id).x, ActiveObject(id).y) # p
        /\ handleObjectDragEnd(id, p.x, p.y, {})

NextHist ==
    \/ DragAway /\ UNCHANGED lastEvent
    \/ undo /\ UNCHANGED lastEvent
    \/ redo /\ UNCHANGED lastEvent
    \/ CanImport /\ handleImportJSON(BareFile) /\ UNCHANGED lastEvent
    \/ readerOnload /\ UNCHANGED lastEvent

SpecHist == InitHist /\ [][NextHist]_vars

\* the same machine a few steps deep, noting with each handler the rooms and
\* the cursor it started from
ObserveFrom(op) ==
    lastEvent' = [op |-> op, arg |-> [rooms |-> rooms, historyIndex |-> historyIndex]]

NextUndo ==
    \/ CanRecord /\ DragAway /\ ObserveFrom("handleObjectDragEnd")
    \/ undo /\ ObserveFrom("undo")
    \/ redo /\ ObserveFrom("redo")
    \/ CanRecord /\ CanCreate
         /\ \E file \in ImportFiles : handleImportJSON(file) /\ ObserveFrom("handleImportJSON")
    \/ readerOnload /\ ObserveFrom("readerOnload")

SpecUndo == InitHist /\ [][NextUndo]_vars

\* a step that records a snapshot
Records == history' # history

\* a recording step whose snapshot goes onto 50 kept ones: the oldest is dropped
Overflows ==
    /\ Records
    /\ Len(history) = HISTORY_LIMIT
    /\ Len(history') = HISTORY_LIMIT
    /\ SubSeq(history', 1, HISTORY_LIMIT - 1) = Tail(history)

\* C6: the history never holds more than 50 snapshots, and a push that would
\* make it 51 drops the oldest snapshot and leaves the cursor on the pushed
\* snapshot, at index 49.
C6_HistoryCapped ==
    [][ /\ Len(history') <= HISTORY_LIMIT
        /\ Overflows => /\ historyIndex' = LAST_INDEX
                        /\ history'[historyIndex' + 1] = rooms' ]_vars

\* C7: right after any recorded mutation the cursor is on the last snapshot,
\* historyIndex = history.length - 1, so that nothing is left to redo.
C7_PushTruncatesRedoTail ==
    [][ Records => historyIndex' = Len(history') - 1 ]_vars

\* C8: an undo right after a recorded mutation sets rooms to exactly the value
\* it had before that mutation, and a redo right after an undo that moved the
\* cursor sets rooms back to the value it had before the undo.
C8_UndoRedoRestore ==
    [][ /\ ( /\ lastEvent'.op = "undo"
             /\ lastEvent.op \in {"handleObjectDragEnd", "readerOnload"}
             /\ historyIndex > 0 )
           => rooms' = lastEvent.arg.rooms
        /\ ( /\ lastEvent'.op = "redo"
             /\ lastEvent.op = "undo"
             /\ lastEvent.arg.historyIndex > 0 )
           => rooms' = lastEvent.arg.rooms ]_vars

-----------------------------------------------------------------------------
(* More claims on bulk wall input, checked under SpecBulk *)

\* the step is a bulk input of lines, at least one of which is a segment
BulkStep == lastEvent'.op = "handleBulkWallInput" /\ Len(ParseSegments(lastEvent'.arg)) > 0

\* the normalized path the step walks, from the pointer position before it
StepPath == NormalizedPoints(ParseSegments(lastEvent'.arg), mousePos)

\* walls is one wall per typed segment, each starting where the previous ended
IsChainFor(walls, lines) ==
    /\ Len(walls) = Len(ParseSegments(lines))
    /\ \A i \in 1..(Len(walls) - 1) : walls[i].end = walls[i + 1].start

\* C11: when the path does not close, bulk input makes no room boundary and
\* emits exactly one temp wall per segment, each starting where the previous
\* one ended: appended after the temp walls of the active room, or placed in
\* one new room without points when no room is active.
C11_OpenPathBecomesWalls ==
    [][ (BulkStep /\ ~ ClosesPath(StepPath)) =>
          IF HasActiveRoom
          THEN /\ Len(rooms') = Len(rooms)
               /\ \A i \in DOMAIN rooms : i # ActiveIndex => rooms'[i] = rooms[i]
               /\ LET before == rooms[ActiveIndex]
                      after == rooms'[ActiveIndex]
                      added == SubSeq(after.tempWalls, Len(before.tempWalls) + 1,
                                      Len(after.tempWalls))
                  IN  /\ after.points = before.points
                      /\ after.objects = before.objects
                      /\ SubSeq(after.tempWalls, 1, Len(before.tempWalls)) = before.tempWalls
                      /\ IsChainFor(added, lastEvent'.arg)
          ELSE /\ Len(rooms') = Len(rooms) + 1
               /\ SubSeq(rooms', 1, Len(rooms)) = rooms
               /\ rooms'[Len(rooms')].points = <<>>
               /\ IsChainFor(rooms'[Len(rooms')].tempWalls, lastEvent'.arg) ]_vars

\* the end points of a list of walls
WallEnds(walls) ==
    { walls[i].start : i \in DOMAIN walls } \cup { walls[i].end : i \in DOMAIN walls }

\* the points the step put into the room list: the boundary and the walls of
\* a room it appended, or the walls it appended to the active room
EmittedPoints ==
    IF Len(rooms') = Len(rooms) + 1
    THEN LET newRoom == rooms'[Len(rooms')]
         IN  { newRoom.points[i] : i \in DOMAIN newRoom.points } \cup WallEnds(newRoom.tempWalls)
    ELSE IF HasActiveRoom
    THEN WallEnds(SubSeq(rooms'[ActiveIndex].tempWalls,
                         Len(rooms[ActiveIndex].tempWalls) + 1,
                         Len(rooms'[ActiveIndex].tempWalls)))
    ELSE {}

\* C12: whatever the pointer position and the segments, every point bulk
\* input emits has whole-foot coordinates, and the smallest x and the
\* smallest y over the emitted path are both exactly 10 ft.
C12_PathNormalized ==
    [][ BulkStep =>
          /\ EmittedPoints # {}
          /\ \A p \in EmittedPoints : p.x % UNITS_PER_FOOT = 0 /\ p.y % UNITS_PER_FOOT = 0
          /\ \A p \in EmittedPoints : p.x >= Ft(10) /\ p.y >= Ft(10)
          /\ \E p \in EmittedPoints : p.x = Ft(10)
          /\ \E p \in EmittedPoints : p.y = Ft(10) ]_vars

\* segments of a foot and a half typed with the pointer off the grid have
\* become three walls of the active room
C12_Witness ==
    /\ lastEvent.op = "handleBulkWallInput"
    /\ Len(ParseSegments(lastEvent.arg)) = 3
    /\ mousePos = Pt(Ft(3) + 6, 0 - (Ft(2) + 6))
    /\ HasActiveRoom
    /\ Len(activeRoom.tempWalls) >= 3
    /\ Ft(10) \in { activeRoom.tempWalls[i].start.x : i \in DOMAIN activeRoom.tempWalls }

-----------------------------------------------------------------------------
(* Snapping (App.findSnapTarget) *)

\* as WithinThreshold, with a threshold of 1 ft
WithinThresholdOfOneFoot(a, b) == Abs(a - b) < UNITS_PER_FOOT

\* Math.abs(a - b) < threshold, threshold = 0.5 (feet)
WithinThreshold(a, b) == 2 * Abs(a - b) < UNITS_PER_FOOT

\* the forEach over activeRoom.points, from edge i on
RECURSIVE SnapToWallsFrom(_, _, _, _, _)
SnapToWallsFrom(points, x, y, snapped, i) ==
    IF i > Len(points) THEN snapped
    ELSE LET p1 == points[i]
             p2 == points[(i % Len(points)) + 1]
             sx == IF NearZero(p1.x - p2.x) /\ WithinThreshold(x, p1.x) THEN p1.x
                   ELSE snapped.x
             sy == IF NearZero(p1.y - p2.y) /\ WithinThreshold(y, p1.y) THEN p1.y
                   ELSE snapped.y
         IN  SnapToWallsFrom(points, x, y, Pt(sx, sy), i + 1)

\* a variant of SnapSkips: the object being moved is not skipped
SnapSkipsNothing(other, objId) == FALSE

\* if (other.id === objId) return
SnapSkips(other, objId) == other.id = objId

\* the forEach over activeRoom.objects, from object i on
RECURSIVE SnapToObjectsFrom(_, _, _, _, _, _, _)
SnapToObjectsFrom(lib, objects, x, y, objId, snapped, i) ==
    IF i > Len(objects) THEN snapped
    ELSE LET other == objects[i]
             d == FindDef(lib, other.definitionId)
         IN  IF SnapSkips(other, objId) \/ d = 0
             THEN SnapToObjectsFrom(lib, objects, x, y, objId, snapped, i + 1)
             ELSE LET rect == getObjectRect(other, lib[d])
                      x1 == IF WithinThreshold(x, rect.x) THEN rect.x ELSE snapped.x
                      x2 == IF WithinThreshold(x, rect.x + rect.width)
                            THEN rect.x + rect.width ELSE x1
                      y1 == IF WithinThreshold(y, rect.y) THEN rect.y ELSE snapped.y
                      y2 == IF WithinThreshold(y, rect.y + rect.height)
                            THEN rect.y + rect.height ELSE y1
                  IN  SnapToObjectsFrom(lib, objects, x, y, objId, Pt(x2, y2), i + 1)

findSnapTarget(x, y, objId) ==
    IF ~ HasActiveRoom THEN Pt(snapToGrid(x), snapToGrid(y))
    ELSE LET grid == Pt(snapToGrid(x), snapToGrid(y))
             walls == SnapToWallsFrom(activeRoom.points, x, y, grid, 1)
         IN  SnapToObjectsFrom(objectLibrary, activeRoom.objects, x, y, objId, walls, 1)

\* one call of findSnapTarget per behaviour
Crate == Def("d4", "Crate", Ft(2) + 6, Ft(2), "standard")

SnapLibraries == { <<Desk, Box>>, <<Desk, Crate>> }

\* boundaries on the grid, and two off it: a shifted square and a thin strip
\* whose two long edges are both within reach of x = 0
SnapPointLists ==
    PointLists
    \cup { << Pt(3, 3), Pt(Ft(4) + 3, 3), Pt(Ft(4) + 3, Ft(4) + 3), Pt(3, Ft(4) + 3) >>,
           << Pt(0 - 3, 0), Pt(3, 0), Pt(3, Ft(4)), Pt(0 - 3, Ft(4)) >> }

SnapObjects ==
    { Obj(1, "d1", Ft(2), Ft(2), 0),
      Obj(2, "d1", Ft(2), Ft(2), 90),
      Obj(2, "d2", Ft(4), Ft(2), 0),
      Obj(3, "d4", Ft(2), Ft(2), 0),
      Obj(3, "dX", Ft(2), Ft(2), 0) }

SnapObjectLists == { q \in SeqsUpTo(SnapObjects, MaxObjects) : DistinctIds(q) }

\* raw coordinates: on the grid, near it, half way between grid lines
RawCoords == { 0, 4, Ft(1), Ft(3) + 4, Ft(5) + 6 }

InitSnap ==
    /\ \E lib \in SnapLibraries, pts \in SnapPointLists, objs \in SnapObjectLists :
          /\ rooms = << Room(7, <<"Room", 7>>, pts, objs, <<>>) >>
          /\ objectLibrary = lib
    /\ activeRoomId \in {7, NULL_ID}
    /\ history = << rooms >>
    /\ historyIndex = 0
    /\ mousePos = Pt(0, 0)
    /\ idCounter = 7
    /\ reader = NoReader
    /\ mode = "select"
    /\ drawingPoints = <<>>
    /\ download = NoDownload
    /\ lastEvent = [op |-> "load", arg |-> 0]
    /\ call \in { [fn |-> "findSnapTarget", x |-> x, y |-> y, objId |-> id] :
                    x \in RawCoords, y \in RawCoords, id \in {NULL_ID, 2, 3} }
    /\ ret = NoRet

CallFindSnapTarget ==
    /\ call.fn = "findSnapTarget"
    /\ ~ ret.done
    /\ ret' = [done |-> TRUE, val |-> findSnapTarget(call.x, call.y, call.objId)]
    /\ UNCHANGED <<appVars, call>>

NextSnap == CallFindSnapTarget

SpecSnap == InitSnap /\ [][NextSnap]_vars

SnapCallDone == call.fn = "findSnapTarget" /\ ret.done

OnGrid(v) == v % UNITS_PER_FOOT = 0

\* C13: for every point whose x and y are whole feet, and every active room
\* and library, findSnapTarget returns the point itself.
C13_GridPointIsFixed ==
    (SnapCallDone /\ OnGrid(call.x) /\ OnGrid(call.y) /\ call.objId = NULL_ID)
        => ret.val = Pt(call.x, call.y)

\* the x coordinates findSnapTarget looks at, in the order it looks at them:
\* the vertical boundary edges from edge i on
RECURSIVE WallFeaturesX(_, _)
WallFeaturesX(points, i) ==
    IF i > Len(points) THEN <<>>
    ELSE (IF NearZero(points[i].x - points[(i % Len(points)) + 1].x)
          THEN << points[i].x >> ELSE <<>>) \o WallFeaturesX(points, i + 1)

RECURSIVE WallFeaturesY(_, _)
WallFeaturesY(points, i) ==
    IF i > Len(points) THEN <<>>
    ELSE (IF NearZero(points[i].y - points[(i % Len(points)) + 1].y)
          THEN << points[i].y >> ELSE <<>>) \o WallFeaturesY(points, i + 1)

\* the objects that count: not the excluded one, definition in the library
SnapObjectsOf(objId) ==
    SelectSeq(activeRoom.objects,
              LAMBDA o : o.id # objId /\ FindDef(objectLibrary, o.definitionId) # 0)

\* left edge, right edge of each, in array order; top edge, bottom edge
RECURSIVE ObjectFeaturesX(_, _)
ObjectFeaturesX(objs, i) ==
    IF i > Len(objs) THEN <<>>
    ELSE LET rect == getObjectRect(objs[i], objectLibrary[FindDef(objectLibrary, objs[i].definitionId)])
         IN  << rect.x, rect.x + rect.width >> \o ObjectFeaturesX(objs, i + 1)

RECURSIVE ObjectFeaturesY(_, _)
ObjectFeaturesY(objs, i) ==
    IF i > Len(objs) THEN <<>>
    ELSE LET rect == getObjectRect(objs[i], objectLibrary[FindDef(objectLibrary, objs[i].definitionId)])
         IN  << rect.y, rect.y + rect.height >> \o ObjectFeaturesY(objs, i + 1)

FeaturesX(objId) ==
    IF ~ HasActiveRoom THEN <<>>
    ELSE WallFeaturesX(activeRoom.points, 1) \o ObjectFeaturesX(SnapObjectsOf(objId), 1)

FeaturesY(objId) ==
    IF ~ HasActiveRoom THEN <<>>
    ELSE WallFeaturesY(activeRoom.points, 1) \o ObjectFeaturesY(SnapObjectsOf(objId), 1)

\* the positions of the features within 0.5 ft of raw
Reachable(features, raw) == { k \in DOMAIN features : WithinThreshold(raw, features[k]) }

\* raw rounded to the nearest whole foot, a half rounding up
NearestWholeFoot(raw) ==
    CHOOSE g \in { Ft(k) : k \in (0 - 2)..8 } : g - raw <= 6 /\ raw - g < 6

\* the last feature within 0.5 ft of raw, the nearest whole foot when there is none
LastWins(features, raw) ==
    IF Reachable(features, raw) = {} THEN NearestWholeFoot(raw)
    ELSE features[CHOOSE k \in Reachable(features, raw) :
                     \A j \in Reachable(features, raw) : j <= k]

\* C14: each coordinate findSnapTarget returns is that of the last feature
\* within 0.5 ft of the raw coordinate, boundary edges in array order first
\* and then the objects in array order, left before right and top before
\* bottom, the excluded object and objects without a definition left out;
\* with no feature within 0.5 ft it is the raw value rounded to a whole foot.
C14_LastSnapWins ==
    SnapCallDone =>
        /\ ret.val.x = LastWins(FeaturesX(call.objId), call.x)
        /\ ret.val.y = LastWins(FeaturesY(call.objId), call.y)

\* two different x features were within reach and the later one was returned,
\* while the object being moved, also within reach, was left out
C14_Witness ==
    /\ SnapCallDone
    /\ HasActiveRoom
    /\ \E j, k \in Reachable(FeaturesX(call.objId), call.x) :
          j < k /\ FeaturesX(call.objId)[j] # FeaturesX(call.objId)[k]
    /\ ret.val.x = LastWins(FeaturesX(call.objId), call.x)
    /\ call.objId # NULL_ID
    /\ LastWins(FeaturesX(NULL_ID), call.x) # ret.val.x

-----------------------------------------------------------------------------
(* The polygon functions in floating point (utils.ts)

   The source computes with `number`: binary floating point, every operation
   rounded to the nearest representable value, ties to even.  Here that
   arithmetic is kept, with the significand reduced from 53 bits to
   SignificandBits and no bound on the exponent: a value is m * 2^e with
   |m| < 2^SignificandBits, written [m, e] with m odd, or [0, 0]. *)

SignificandBits == 4

\* the value m * 2^e, which must be representable, in its one written form
RECURSIVE Float(_, _)
Float(m, e) ==
    IF m = 0 THEN [m |-> 0, e |-> 0]
    ELSE IF m % 2 = 0 THEN Float(m \div 2, e + 1)
    ELSE [m |-> m, e |-> e]

\* the number of low bits rounding drops from the integer q
RECURSIVE DroppedBits(_, _)
DroppedBits(q, k) ==
    IF q \div Pow2(k) < Pow2(SignificandBits) THEN k ELSE DroppedBits(q, k + 1)

\* the representable value nearest to (n / d) * 2^e, ties to even, for d > 0
\* and n = 0 or |n / d| >= 2^(SignificandBits - 1), or d = 1
RoundNearest(n, d, e) ==
    LET a == Abs(n)
        k == DroppedBits(a \div d, 0)
        scale == d * Pow2(k)
        m0 == a \div scale
        rem == a - m0 * scale
        m == IF 2 * rem > scale \/ (2 * rem = scale /\ m0 % 2 = 1) THEN m0 + 1 ELSE m0
    IN  Float((IF n < 0 THEN 0 - 1 ELSE 1) * m, e + k)

\* a - b as an exact integer count of 2^Min2(a.e, b.e)
ExactDiff(a, b) ==
    LET e == Min2(a.e, b.e)
    IN  a.m * Pow2(a.e - e) - b.m * Pow2(b.e - e)

FloatSub(a, b) == RoundNearest(ExactDiff(a, b), 1, Min2(a.e, b.e))

FloatAdd(a, b) == FloatSub(a, [m |-> 0 - b.m, e |-> b.e])

FloatMul(a, b) == RoundNearest(a.m * b.m, 1, a.e + b.e)

\* b # 0; the dividend is scaled so that the quotient has all its bits
FloatDiv(a, b) ==
    LET up == 2 * SignificandBits
        sign == IF b.m < 0 THEN 0 - 1 ELSE 1
    IN  RoundNearest(sign * a.m * Pow2(up), Abs(b.m), a.e - b.e - up)

FloatLess(a, b) == ExactDiff(a, b) < 0

FloatAbs(a) == [m |-> Abs(a.m), e |-> a.e]

FloatZero == Float(0, 0)

\* area after the loop body has run for i, i + 1, ..
RECURSIVE AreaLoopFloat(_, _, _)
AreaLoopFloat(points, i, area) ==
    IF i >= Len(points) THEN area
    ELSE LET j == (i + 1) % Len(points)
             plus == FloatAdd(area, FloatMul(points[i + 1].x, points[j + 1].y))
             minus == FloatSub(plus, FloatMul(points[j + 1].x, points[i + 1].y))
         IN  AreaLoopFloat(points, i + 1, minus)

calculatePolygonAreaFloat(points) ==
    FloatDiv(FloatAbs(AreaLoopFloat(points, 0, FloatZero)), Float(2, 0))

\* inside after the loop body has run for i, i + 1, .., j being the previous index
RECURSIVE InsideLoopFloat(_, _, _, _, _)
InsideLoopFloat(point, polygon, i, j, inside) ==
    IF i >= Len(polygon) THEN inside
    ELSE LET xi == polygon[i + 1].x
             yi == polygon[i + 1].y
             xj == polygon[j + 1].x
             yj == polygon[j + 1].y
             intersect ==
                 /\ FloatLess(point.y, yi) # FloatLess(point.y, yj)
                 /\ FloatLess(point.x,
                              FloatAdd(FloatDiv(FloatMul(FloatSub(xj, xi),
                                                         FloatSub(point.y, yi)),
                                                FloatSub(yj, yi)), xi))
         IN  InsideLoopFloat(point, polygon, i + 1, i, IF intersect THEN ~ inside ELSE inside)

isPointInPolygonFloat(point, polygon) ==
    InsideLoopFloat(point, polygon, 0, Len(polygon) - 1, FALSE)

\* one call of either function per behaviour, on at most MaxPoints points
MaxPoints == 2

\* coordinates: 0, 5/64, 5/16, 1, 1.5
FloatCoords == { FloatZero, Float(5, 0 - 6), Float(5, 0 - 4), Float(1, 0), Float(3, 0 - 1) }

FloatPoints == { Pt(x, y) : x \in FloatCoords, y \in FloatCoords }

FloatPointLists == SeqsUpTo(FloatPoints, MaxPoints)

InitFloat ==
    /\ AppIdle(<<>>)
    /\ call \in { [fn |-> "calculatePolygonArea", points |-> pts] : pts \in FloatPointLists }
            \cup { [fn |-> "isPointInPolygon", point |-> q, polygon |-> pts] :
                      q \in FloatPoints, pts \in FloatPointLists }
    /\ ret = NoRet

CallCalculatePolygonArea ==
    /\ call.fn = "calculatePolygonArea"
    /\ ~ ret.done
    /\ ret' = [done |-> TRUE, val |-> calculatePolygonAreaFloat(call.points)]
    /\ UNCHANGED <<appVars, call>>

CallIsPointInPolygon ==
    /\ call.fn = "isPointInPolygon"
    /\ ~ ret.done
    /\ ret' = [done |-> TRUE, val |-> isPointInPolygonFloat(call.point, call.polygon)]
    /\ UNCHANGED <<appVars, call>>

NextFloat == CallCalculatePolygonArea \/ CallIsPointInPolygon

SpecFloat == InitFloat /\ [][NextFloat]_vars

\* C18: calculatePolygonArea returns 0 for every list of fewer than 3 points.
C18_AreaOfFewPointsIsZero ==
    (call.fn = "calculatePolygonArea" /\ ret.done /\ Len(call.points) < 3)
        => ret.val = FloatZero

\* C19: isPointInPolygon returns false for every query point when the polygon
\* has fewer than 3 points.
C19_NothingInsideFewPoints ==
    (call.fn = "isPointInPolygon" /\ ret.done /\ Len(call.polygon) < 3)
        => ret.val = FALSE

----------------------------------------------------------------------------
\* The rectangle functions of utils.ts, called on their own.

\* rectangle corners range over 0..MaxCoord, sides over 1..MaxCoord
MaxCoord == 2

Rotations == { 0, 90, 180, 270 }

GeomDefs == { DefaultDoor, Desk, Box, Crate }

GeomCentres == { 0, Ft(3), Ft(5) + 4 }

GeomObjects ==
    { Obj(1, d.id, px, py, r) : d \in GeomDefs, px \in GeomCentres, py \in { Ft(3) }, r \in Rotations }

Rect(px, py, w, h) == [x |-> px, y |-> py, width |-> w, height |-> h]

Rects == { Rect(px, py, w, h) : px \in 0..MaxCoord, py \in 0..MaxCoord,
                                w \in 1..MaxCoord, h \in 1..MaxCoord }

InitGeom ==
    /\ AppIdle(<<>>)
    /\ call \in { [fn |-> "getObjectRect", obj |-> o, def |-> d] :
                     o \in GeomObjects, d \in GeomDefs }
            \cup { [fn |-> "checkRectOverlap", r1 |-> a, r2 |-> b] : a \in Rects, b \in Rects }
    /\ ret = NoRet

CallGetObjectRect ==
    /\ call.fn = "getObjectRect"
    /\ ~ ret.done
    /\ ret' = [done |-> TRUE, val |-> getObjectRect(call.obj, call.def)]
    /\ UNCHANGED <<appVars, call>>

CallCheckRectOverlap ==
    /\ call.fn = "checkRectOverlap"
    /\ ~ ret.done
    /\ ret' = [done |-> TRUE, val |-> checkRectOverlap(call.r1, call.r2)]
    /\ UNCHANGED <<appVars, call>>

NextGeom == CallGetObjectRect \/ CallCheckRectOverlap

SpecGeom == InitGeom /\ [][NextGeom]_vars

RectCallDone == call.fn = "getObjectRect" /\ ret.done

Turned(obj) == [obj EXCEPT !.rotation = (obj.rotation + 180) % 360]

\* C15: the rectangle of getObjectRect has the object's (x, y) as its centre;
\* its width and height are the definition's width and length at rotation 0
\* and 180 and the definition's length and width at 90 and 270; the object
\* turned by a further 180 degrees has the same rectangle.
C15_RectCentredAndSwapped ==
    RectCallDone =>
        LET o == call.obj
            d == call.def
            r == ret.val
        IN  /\ 2 * r.x + r.width = 2 * o.x
            /\ 2 * r.y + r.height = 2 * o.y
            /\ o.rotation \in { 0, 180 } => r.width = d.width /\ r.height = d.length
            /\ o.rotation \in { 90, 270 } => r.width = d.length /\ r.height = d.width
            /\ getObjectRect(Turned(o), d) = r

\* a desk of 4 ft by 2 ft at rotation 270 covers 2 ft by 4 ft
C15_Witness ==
    /\ RectCallDone
    /\ call.def = Desk
    /\ call.obj.rotation = 270
    /\ ret.val.width = Ft(2)
    /\ ret.val.height = Ft(4)

OverlapCallDone == call.fn = "checkRectOverlap" /\ ret.done

\* the point (px / 2, py / 2) lies strictly inside r
StrictlyInside(px, py, r) ==
    /\ 2 * r.x < px /\ px < 2 * (r.x + r.width)
    /\ 2 * r.y < py /\ py < 2 * (r.y + r.height)

\* rectangles with whole corners have a common interior point exactly when
\* they have one with coordinates in halves
InteriorsIntersect(r1, r2) ==
    \E px \in 0..(4 * MaxCoord), py \in 0..(4 * MaxCoord) :
        StrictlyInside(px, py, r1) /\ StrictlyInside(px, py, r2)

\* C16: for rectangles of positive width and height checkRectOverlap is true
\* exactly when the open interiors have a common point (so rectangles sharing
\* only an edge or a corner do not overlap), and swapping the arguments does
\* not change the result.
C16_OverlapIsOpenIntersection ==
    OverlapCallDone =>
        /\ ret.val = InteriorsIntersect(call.r1, call.r2)
        /\ ret.val = checkRectOverlap(call.r2, call.r1)

\* two unit squares sharing the edge x = 1 do not overlap
C16_Witness ==
    /\ OverlapCallDone
    /\ call.r1 = Rect(0, 0, 1, 1)
    /\ call.r2 = Rect(1, 0, 1, 1)
    /\ ret.val = FALSE

----------------------------------------------------------------------------
\* The two segment intersection functions of utils.ts, in the arithmetic above.

NoPoint == [found |-> FALSE]

FoundPoint(px, py) == [found |-> TRUE, x |-> px, y |-> py]

FloatOne == Float(1, 0)

\* (p2.x - p1.x) * (p4.y - p3.y) - (p2.y - p1.y) * (p4.x - p3.x)
DetFloat(p1, p2, p3, p4) ==
    FloatSub(FloatMul(FloatSub(p2.x, p1.x), FloatSub(p4.y, p3.y)),
             FloatMul(FloatSub(p2.y, p1.y), FloatSub(p4.x, p3.x)))

\* ((p4.y - p3.y) * (p4.x - p1.x) + (p3.x - p4.x) * (p4.y - p1.y)) / det
LambdaFloat(p1, p2, p3, p4, det) ==
    FloatDiv(FloatAdd(FloatMul(FloatSub(p4.y, p3.y), FloatSub(p4.x, p1.x)),
                      FloatMul(FloatSub(p3.x, p4.x), FloatSub(p4.y, p1.y))), det)

\* ((p1.y - p2.y) * (p4.x - p1.x) + (p2.x - p1.x) * (p4.y - p1.y)) / det
GammaFloat(p1, p2, p3, p4, det) ==
    FloatDiv(FloatAdd(FloatMul(FloatSub(p1.y, p2.y), FloatSub(p4.x, p1.x)),
                      FloatMul(FloatSub(p2.x, p1.x), FloatSub(p4.y, p1.y))), det)

getLineIntersection(p1, p2, p3, p4) ==
    LET det == DetFloat(p1, p2, p3, p4)
    IN  IF det = FloatZero THEN NoPoint
        ELSE LET lambda == LambdaFloat(p1, p2, p3, p4, det)
                 gamma == GammaFloat(p1, p2, p3, p4, det)
             IN  IF /\ ~ FloatLess(lambda, FloatZero) /\ ~ FloatLess(FloatOne, lambda)
                    /\ ~ FloatLess(gamma, FloatZero) /\ ~ FloatLess(FloatOne, gamma)
                 THEN FoundPoint(FloatAdd(p1.x, FloatMul(lambda, FloatSub(p2.x, p1.x))),
                                 FloatAdd(p1.y, FloatMul(lambda, FloatSub(p2.y, p1.y))))
                 ELSE NoPoint

doLinesIntersectFloat(a, b, c, d) ==
    LET det == DetFloat(a, b, c, d)
    IN  IF det = FloatZero THEN FALSE
        ELSE LET lambda == LambdaFloat(a, b, c, d, det)
                 gamma == GammaFloat(a, b, c, d, det)
             IN  /\ FloatLess(FloatZero, lambda) /\ FloatLess(lambda, FloatOne)
                 /\ FloatLess(FloatZero, gamma) /\ FloatLess(gamma, FloatOne)

\* segment ends: whole coordinates that the significand holds exactly
LineCoords == { 0, 3, 7 }

LinePoints == { Pt(Float(px, 0), Float(py, 0)) : px \in LineCoords, py \in LineCoords }

InitLines ==
    /\ AppIdle(<<>>)
    /\ call \in { [fn |-> "getLineIntersection", p1 |-> a, p2 |-> b, p3 |-> c, p4 |-> d] :
                     a \in LinePoints, b \in LinePoints, c \in LinePoints, d \in LinePoints }
    /\ ret = NoRet

\* both functions on the same four points
CallGetLineIntersection ==
    /\ call.fn = "getLineIntersection"
    /\ ~ ret.done
    /\ ret' = [done |-> TRUE,
               val |-> getLineIntersection(call.p1, call.p2, call.p3, call.p4),
               strict |-> doLinesIntersectFloat(call.p1, call.p2, call.p3, call.p4)]
    /\ UNCHANGED <<appVars, call>>

NextLines == CallGetLineIntersection

SpecLines == InitLines /\ [][NextLines]_vars

LinesCallDone == call.fn = "getLineIntersection" /\ ret.done

\* the whole number a value of LineCoords stands for
Whole(f) == f.m * Pow2(f.e)

\* twice the signed area of the triangle o, a, b, exactly
Cross(o, a, b) ==
    (Whole(a.x) - Whole(o.x)) * (Whole(b.y) - Whole(o.y))
        - (Whole(a.y) - Whole(o.y)) * (Whole(b.x) - Whole(o.x))

Between(lo, v, hi) == (lo <= v /\ v <= hi) \/ (hi <= v /\ v <= lo)

\* q lies on the closed segment a, b
OnSegment(q, a, b) ==
    /\ Cross(a, b, q) = 0
    /\ Between(Whole(a.x), Whole(q.x), Whole(b.x))
    /\ Between(Whole(a.y), Whole(q.y), Whole(b.y))

Parallel(p1, p2, p3, p4) ==
    (Whole(p2.x) - Whole(p1.x)) * (Whole(p4.y) - Whole(p3.y))
        = (Whole(p2.y) - Whole(p1.y)) * (Whole(p4.x) - Whole(p3.x))

\* the segments are not parallel and q, an end of one of them, is on both
MeetAtEnd(q, p1, p2, p3, p4) ==
    /\ ~ Parallel(p1, p2, p3, p4)
    /\ q \in { p1, p2, p3, p4 }
    /\ OnSegment(q, p1, p2)
    /\ OnSegment(q, p3, p4)

\* each segment has its two ends strictly on opposite sides of the other
CrossInside(p1, p2, p3, p4) ==
    /\ Cross(p1, p2, p3) * Cross(p1, p2, p4) < 0
    /\ Cross(p3, p4, p1) * Cross(p3, p4, p2) < 0

\* C17: non-parallel segments that meet at an end of one of them:
\* getLineIntersection returns the meeting point and doLinesIntersect is false;
\* segments crossing in their interiors: both report the crossing; parallel or
\* collinear segments: both report no intersection.
C17_ClosedAndOpenIntersection ==
    LinesCallDone =>
        LET p1 == call.p1
            p2 == call.p2
            p3 == call.p3
            p4 == call.p4
        IN  /\ \A q \in { p1, p2, p3, p4 } :
                   MeetAtEnd(q, p1, p2, p3, p4) =>
                       ret.val = FoundPoint(q.x, q.y) /\ ~ ret.strict
            /\ CrossInside(p1, p2, p3, p4) => ret.val.found /\ ret.strict
            /\ Parallel(p1, p2, p3, p4) => ~ ret.val.found /\ ~ ret.strict

----------------------------------------------------------------------------
\* The import of a file that holds a room and a library.

\* the step in which reader.onload runs on a {room, library} file
WrappedImportDone == reader.busy /\ reader.file.wrapped /\ ~ reader'.busy

\* the ids of every room list the application holds
KnownIds == UsedIds(rooms) \cup UNION { UsedIds(history[i]) : i \in DOMAIN history }

HasDefinition(lib, id) == \E j \in DOMAIN lib : lib[j].id = id

\* the imported definitions whose id the library does not have
NewDefinitions(lib, imported) ==
    { imported[i] : i \in { k \in DOMAIN imported : ~ HasDefinition(lib, imported[k].id) } }

\* C20: when the import of a {room, library} file completes, the room list is
\* the room list of that moment followed by the imported room under a fresh
\* id, that room is the active room, the library is the library of that moment
\* (every definition as it was) followed by exactly the imported definitions
\* whose id it did not have.
C20_ImportAppendsRoomAndMerges ==
    [][ WrappedImportDone =>
          /\ Len(rooms') = Len(rooms) + 1
          /\ SubSeq(rooms', 1, Len(rooms)) = rooms
          /\ LET room == rooms'[Len(rooms')]
             IN  /\ room = [reader.file.room EXCEPT !.id = room.id]
                 /\ room.id \notin KnownIds
                 /\ activeRoomId' = room.id
          /\ SubSeq(objectLibrary', 1, Len(objectLibrary)) = objectLibrary
          /\ { objectLibrary'[i] : i \in (Len(objectLibrary) + 1)..Len(objectLibrary') }
                = NewDefinitions(objectLibrary, reader.file.library)
          /\ Len(objectLibrary')
                = Len(objectLibrary)
                    + Cardinality(NewDefinitions(objectLibrary, reader.file.library)) ]_vars

----------------------------------------------------------------------------
\* The asynchronous completion of the import, and the history cursor.

\* the step in which reader.onload runs
ImportDone == reader.busy /\ ~ reader'.busy

\* C23: when the file read completes, the room list is the room list of that
\* moment followed by the imported room, so what happened to the rooms between
\* choosing the file and the completion is kept.
C23_ImportUsesCurrentRooms ==
    [][ ImportDone =>
          /\ Len(rooms') = Len(rooms) + 1
          /\ SubSeq(rooms', 1, Len(rooms)) = rooms ]_vars

\* C22: the cursor is in range and the rooms shown are the snapshot under it:
\* 0 <= historyIndex < history.length and rooms = history[historyIndex].
C22_CursorOnShownSnapshot ==
    /\ 0 <= historyIndex
    /\ historyIndex < Len(history)
    /\ rooms = history[historyIndex + 1]

----------------------------------------------------------------------------
\* The active room.

RoomIds(rms) == { rms[i].id : i \in DOMAIN rms }

\* C24: after every step activeRoomId is null or the id of a room in rooms;
\* deleting the active room makes the first remaining room active (null when
\* none remains) and deleting another room leaves activeRoomId as it was.
C24_ActiveRoomIsCurrent ==
    [][ /\ activeRoomId' = NULL_ID \/ activeRoomId' \in RoomIds(rooms')
        /\ lastEvent'.op = "handleDeleteRoom" =>
              IF activeRoomId \in RoomIds(rooms) \ RoomIds(rooms')
              THEN activeRoomId' = (IF rooms' = <<>> THEN NULL_ID ELSE rooms'[1].id)
              ELSE activeRoomId' = activeRoomId ]_vars

----------------------------------------------------------------------------
\* Objects that are dropped, dragged and turned, several turns deep.

\* the recorded mutations a behaviour of SpecTurn makes
MaxTurns == 4

NextTurn ==
    \/ historyIndex < MaxTurns /\ ActiveObjectCount < MaxObjects
         /\ \E d \in DOMAIN objectLibrary, p \in DropPoints :
               handleObjectDrop(objectLibrary[d], p.x, p.y) /\ Observe("handleObjectDrop", 0)
    \/ historyIndex < MaxTurns
         /\ \E id \in RenderedObjectIds, p \in DropPoints, selected \in {{}, RenderedObjectIds} :
               handleObjectDragEnd(id, p.x, p.y, selected) /\ Observe("handleObjectDragEnd", id)
    \/ historyIndex < MaxTurns
         /\ \E id \in RenderedObjectIds : handleRotate(id) /\ Observe("handleRotate", id)

SpecTurn == InitHist /\ [][NextTurn]_vars

AllObjects(rms) == UNION { { rms[i].objects[j] : j \in DOMAIN rms[i].objects } : i \in DOMAIN rms }

\* C27: every placed object has rotation 0, 90, 180 or 270: a drop creates
\* the object at rotation 0, an accepted rotate advances the object's rotation
\* by 90 modulo 360, and a drag leaves every object's rotation and
\* definitionId as they were.
C27_RotationIsQuarterTurn ==
    [][ /\ \A o \in AllObjects(rooms') : o.rotation \in Rotations
        /\ lastEvent'.op = "handleObjectDrop" =>
              \A n \in AllObjects(rooms') :
                  (\A o \in AllObjects(rooms) : o.id # n.id) => n.rotation = 0
        /\ (lastEvent'.op = "handleRotate" /\ rooms' # rooms) =>
              \E o \in AllObjects(rooms), n \in AllObjects(rooms') :
                  /\ o.id = lastEvent'.arg
                  /\ n.id = o.id
                  /\ n.rotation = (o.rotation + 90) % 360
        /\ lastEvent'.op = "handleObjectDragEnd" =>
              \A o \in AllObjects(rooms) :
                  \E n \in AllObjects(rooms') :
                      /\ n.id = o.id
                      /\ n.rotation = o.rotation
                      /\ n.definitionId = o.definitionId ]_vars

\* an object at 270 has been turned once more and is at 0
C27_Witness ==
    /\ lastEvent.op = "handleRotate"
    /\ historyIndex > 0
    /\ \E o \in AllObjects(history[historyIndex]), n \in AllObjects(rooms) :
          /\ o.id = lastEvent.arg
          /\ n.id = o.id
          /\ o.rotation = 270
          /\ n.rotation = 0

----------------------------------------------------------------------------
\* Draw-room mode: the boundary of the active room is clicked point by point.

\* the draw-room button of the toolbar
setModeDrawRoom ==
    /\ Alive
    /\ mode' = "draw-room"
    /\ drawingPoints' = <<>>
    /\ UNCHANGED <<rooms, history, historyIndex, activeRoomId, objectLibrary, mousePos,
                   idCounter, reader, call, ret, download>>

\* as handleCanvasClick, but the loop is closed without the extra corner
handleCanvasClickNoCorner(px, py) ==
    /\ Alive
    /\ mode = "draw-room"
    /\ LET snap == findSnapTarget(px, py, NULL_ID)
           n == Len(drawingPoints)
           alongX == n > 0 /\ Abs(snap.x - drawingPoints[n].x) > Abs(snap.y - drawingPoints[n].y)
           gridX == IF n > 0 /\ ~ alongX THEN drawingPoints[n].x ELSE snap.x
           gridY == IF alongX THEN drawingPoints[n].y ELSE snap.y
       IN  IF n > 2 /\ WithinThreshold(drawingPoints[1].x, gridX)
                    /\ WithinThreshold(drawingPoints[1].y, gridY)
           THEN IF activeRoomId # NULL_ID
                THEN /\ setRooms([i \in DOMAIN rooms |->
                            IF rooms[i].id = activeRoomId
                            THEN [rooms[i] EXCEPT !.points = drawingPoints]
                            ELSE rooms[i]])
                     /\ mode' = "select"
                     /\ drawingPoints' = <<>>
                ELSE UNCHANGED <<rooms, history, historyIndex, mode, drawingPoints>>
           ELSE /\ drawingPoints' = Append(drawingPoints, Pt(gridX, gridY))
                /\ UNCHANGED <<rooms, history, historyIndex, mode>>
    /\ UNCHANGED <<activeRoomId, objectLibrary, mousePos, idCounter, reader, call, ret, download>>

\* a click on the empty canvas at pointer (px, py) while mode is draw-room
handleCanvasClick(px, py) ==
    /\ Alive
    /\ mode = "draw-room"
    /\ LET snap == findSnapTarget(px, py, NULL_ID)
           n == Len(drawingPoints)
           alongX == n > 0 /\ Abs(snap.x - drawingPoints[n].x) > Abs(snap.y - drawingPoints[n].y)
           gridX == IF n > 0 /\ ~ alongX THEN drawingPoints[n].x ELSE snap.x
           gridY == IF alongX THEN drawingPoints[n].y ELSE snap.y
       IN  IF n > 2 /\ WithinThreshold(drawingPoints[1].x, gridX)
                    /\ WithinThreshold(drawingPoints[1].y, gridY)
           THEN IF activeRoomId # NULL_ID
                THEN LET first == drawingPoints[1]
                         last == drawingPoints[n]
                         points == IF last.x # first.x /\ last.y # first.y
                                   THEN Append(drawingPoints, Pt(last.x, first.y))
                                   ELSE drawingPoints
                     IN  /\ setRooms([i \in DOMAIN rooms |->
                                IF rooms[i].id = activeRoomId
                                THEN [rooms[i] EXCEPT !.points = points]
                                ELSE rooms[i]])
                         /\ mode' = "select"
                         /\ drawingPoints' = <<>>
                ELSE UNCHANGED <<rooms, history, historyIndex, mode, drawingPoints>>
           ELSE /\ drawingPoints' = Append(drawingPoints, Pt(gridX, gridY))
                /\ UNCHANGED <<rooms, history, historyIndex, mode>>
    /\ UNCHANGED <<activeRoomId, objectLibrary, mousePos, idCounter, reader, call, ret, download>>

\* localStorage holds a room with a crate, whose left and right sides are off the grid
SavedCrate ==
    [rooms |-> << Room(1, <<"Office", 1>>, <<>>, << Obj(2, "d4", Ft(2), Ft(2), 0) >>, <<>>) >>,
     library |-> <<Desk, Crate>>]

InitDraw == Load(SavedCrate)

\* the points a boundary being drawn may have before it is closed
MaxDraw == 4

\* pointer positions: one snaps to the crate's left side, the others to the grid
DrawClicks == { Pt(px, py) : px \in { Ft(1), Ft(1) + 4, Ft(4) }, py \in { 0, Ft(3) } }

\* one drawing session up to its commit, restarted at will
NextDraw ==
    \/ historyIndex = 0 /\ setModeDrawRoom /\ Observe("setModeDrawRoom", 0)
    \/ \E p \in DrawClicks :
          /\ handleCanvasClick(p.x, p.y)
          /\ Len(drawingPoints') <= MaxDraw
          /\ Observe("handleCanvasClick", p)

SpecDraw == InitDraw /\ [][NextDraw]_vars

\* every edge of the closed polygon pts is horizontal or vertical
Rectilinear(pts) ==
    \A i \in DOMAIN pts :
        LET next == pts[(i % Len(pts)) + 1]
        IN  pts[i].x = next.x \/ pts[i].y = next.y

\* C28: a click in draw-room mode that changes a room's boundary commits a
\* boundary whose every edge, the closing edge from the last point to the
\* first included, is horizontal or vertical, and it does so only when at
\* least 3 points have been placed.
C28_DrawnBoundaryRectilinear ==
    [][ \A i \in DOMAIN rooms' :
            (lastEvent'.op = "handleCanvasClick" /\ i \in DOMAIN rooms
                /\ rooms'[i].points # rooms[i].points)
            => /\ Rectilinear(rooms'[i].points)
               /\ Len(drawingPoints) >= 3
               /\ Len(rooms'[i].points) >= 3 ]_vars

\* a boundary was committed with the extra corner: its first point and its
\* last but one differ in both coordinates
C28_Witness ==
    /\ lastEvent.op = "handleCanvasClick"
    /\ mode = "select"
    /\ \E i \in DOMAIN rooms :
          LET pts == rooms[i].points
          IN  /\ Len(pts) >= 4
              /\ pts[Len(pts) - 1].x # pts[1].x
              /\ pts[Len(pts) - 1].y # pts[1].y

----------------------------------------------------------------------------
\* The boundary of a room made by bulk input.

\* no point of the closed polygon pts equals the next one
NoRepeatedPoint(pts) == \A i \in DOMAIN pts : pts[i] # pts[(i % Len(pts)) + 1]

\* C25: when the typed path closes, the room bulk input creates has a boundary
\* of at least 3 points, no two consecutive points of which (the last and the
\* first included) coincide, and of polygon area greater than 0.
C25_BulkRoomIsPolygon ==
    [][ (BulkStep /\ ClosesPath(StepPath)) =>
          /\ Len(rooms') = Len(rooms) + 1
          /\ LET points == rooms'[Len(rooms')].points
             IN  /\ Len(points) >= 3
                 /\ NoRepeatedPoint(points)
                 /\ calculatePolygonArea(points) > 0 ]_vars

----------------------------------------------------------------------------
\* The object library: manual adds, CSV uploads and JSON imports.
\* A text is the sequence of its characters; the texts here are made of
\* digits, the two quote marks, the minus sign, the space and letters.

Digits == { "0", "1", "2", "3", "4", "5", "6", "7", "8", "9" }

DigitValue(c) ==
    CASE c = "0" -> 0 [] c = "1" -> 1 [] c = "2" -> 2 [] c = "3" -> 3 [] c = "4" -> 4
      [] c = "5" -> 5 [] c = "6" -> 6 [] c = "7" -> 7 [] c = "8" -> 8 [] c = "9" -> 9

\* parseInt of the digits str[i..j], in base 10
RECURSIVE parseInt(_, _, _)
parseInt(str, i, j) ==
    IF j < i THEN 0 ELSE 10 * parseInt(str, i, j - 1) + DigitValue(str[j])

IsDigitAt(str, i) == i \in DOMAIN str /\ str[i] \in Digits

\* the last index of the run of digits that starts at i (i - 1 when there is none)
RECURSIVE DigitRunEnd(_, _)
DigitRunEnd(str, i) == IF IsDigitAt(str, i) THEN DigitRunEnd(str, i + 1) ELSE i - 1

\* \s*: the first index from i on that holds no space
RECURSIVE SkipSpaces(_, _)
SkipSpaces(str, i) ==
    IF i \in DOMAIN str /\ str[i] = " " THEN SkipSpaces(str, i + 1) ELSE i

IsCharAt(str, i, c) == i \in DOMAIN str /\ str[i] = c

NotANumber == [isNumber |-> FALSE]

Number(v) == [isNumber |-> TRUE, value |-> v]

\* /(\d+)'\s*(\d+)"/ matched at index i: feet + inches / 12, in inches
FeetInchesAt(str, i) ==
    LET j == DigitRunEnd(str, i)
        k == SkipSpaces(str, j + 2)
        m == DigitRunEnd(str, k)
    IN  IF /\ j >= i
           /\ IsCharAt(str, j + 1, "'")
           /\ m >= k
           /\ IsCharAt(str, m + 1, "\"")
        THEN Number(parseInt(str, i, j) * UNITS_PER_FOOT + parseInt(str, k, m))
        ELSE NotANumber

\* /(\d+)'/ matched at index i, in inches
FeetOnlyAt(str, i) ==
    LET j == DigitRunEnd(str, i)
    IN  IF j >= i /\ IsCharAt(str, j + 1, "'")
        THEN Number(parseInt(str, i, j) * UNITS_PER_FOOT)
        ELSE NotANumber

\* the leftmost match of a pattern over the indices i.. of str
RECURSIVE FirstMatch(_, _, _)
FirstMatch(At(_, _), str, i) ==
    IF i > Len(str) THEN NotANumber
    ELSE IF At(str, i).isNumber THEN At(str, i)
    ELSE FirstMatch(At, str, i + 1)

\* parseFloat of a text without decimal point or exponent, in feet
parseFloat(str) ==
    LET i == SkipSpaces(str, 1)
        negative == IsCharAt(str, i, "-")
        k == IF negative THEN i + 1 ELSE i
        m == DigitRunEnd(str, k)
    IN  IF m < k THEN NotANumber
        ELSE Number((IF negative THEN 0 - 1 ELSE 1) * parseInt(str, k, m))

\* the result in inches; null is NotANumber
parseFeetInches(str) ==
    LET both == FirstMatch(FeetInchesAt, str, 1)
        feetOnly == FirstMatch(FeetOnlyAt, str, 1)
        decimal == parseFloat(str)
    IN  IF both.isNumber THEN both
        ELSE IF feetOnly.isNumber THEN feetOnly
        ELSE IF decimal.isNumber THEN Number(decimal.value * UNITS_PER_FOOT)
        ELSE NotANumber

\* Math.random().toString(36).substr(2, 9) of a library definition
GeneratedId(n) == "g" \o ToString(n)

\* newItemName.trim() is empty
IsBlank(str) == SkipSpaces(str, 1) > Len(str)

\* parseFloat(text) || 0
FloatOrZero(str) == IF parseFloat(str).isNumber THEN parseFloat(str).value ELSE 0

\* the add button of the library panel, with the five input fields as typed
handleManualAddItem(newItemName, newItemLFeet, newItemLInches, newItemWFeet, newItemWInches) ==
    /\ Alive
    /\ LET length == FloatOrZero(newItemLFeet) * UNITS_PER_FOOT + FloatOrZero(newItemLInches)
           width == FloatOrZero(newItemWFeet) * UNITS_PER_FOOT + FloatOrZero(newItemWInches)
       IN  IF IsBlank(newItemName) \/ length <= 0 \/ width <= 0
           THEN UNCHANGED <<objectLibrary, idCounter>>
           ELSE /\ objectLibrary' = Append(objectLibrary,
                       Def(GeneratedId(idCounter + 1), newItemName, width, length, "standard"))
                /\ idCounter' = idCounter + 1
    /\ UNCHANGED <<rooms, history, historyIndex, activeRoomId, mousePos, reader, call, ret, download,
                   mode, drawingPoints>>

\* dynamicTyping turns a cell that reads as a number into that number
IsNumericText(cell) ==
    LET i == SkipSpaces(cell, 1)
        k == IF IsCharAt(cell, i, "-") THEN i + 1 ELSE i
        m == DigitRunEnd(cell, k)
    IN  m >= k /\ SkipSpaces(cell, m + 1) > Len(cell)

\* !value for a cell: the empty text and the number 0
Falsy(cell) == cell = <<>> \/ (IsNumericText(cell) /\ parseFloat(cell).value = 0)

\* the definitions made of the rows i.., the row i getting the id after n
RECURSIVE NewObjectsFrom(_, _, _)
NewObjectsFrom(rows, i, n) ==
    IF i > Len(rows) THEN <<>>
    ELSE LET row == rows[i]
             length == parseFeetInches(row.length)
             width == parseFeetInches(row.width)
         IN  IF \/ Falsy(row.name) \/ Falsy(row.length) \/ Falsy(row.width)
                \/ ~ length.isNumber \/ ~ width.isNumber
             THEN NewObjectsFrom(rows, i + 1, n)
             ELSE << Def(GeneratedId(n + 1), row.name, width.value, length.value, "undefined") >>
                      \o NewObjectsFrom(rows, i + 1, n + 1)

\* the complete callback of Papa.parse, on the rows of the file (columns
\* Name, Length, Width)
handleCSVUpload(rows) ==
    /\ Alive
    /\ LET newObjects == NewObjectsFrom(rows, 1, idCounter)
       IN  /\ objectLibrary' = IF Len(newObjects) > 0 THEN objectLibrary \o newObjects
                               ELSE objectLibrary
           /\ idCounter' = idCounter + Len(newObjects)
    /\ UNCHANGED <<rooms, history, historyIndex, activeRoomId, mousePos, reader, call, ret, download,
                   mode, drawingPoints>>

\* the texts 3'6", 0'0", 2', -3, 4, 0, x and the empty text
CellTexts ==
    { << "3", "'", "6", "\"" >>, << "0", "'", "0", "\"" >>, << "2", "'" >>,
      << "-", "3" >>, << "4" >>, << "0" >>, << "x" >>, <<>> }

\* the rows a CSV file may hold
MaxRows == 1

CsvRows == { [name |-> << "x" >>, length |-> l, width |-> w] : l \in CellTexts, w \in CellTexts }

\* what the user may have typed in the feet and inches fields
FeetTexts == { << "2" >>, << "0" >>, << "-", "1" >>, <<>> }

InchesTexts == { << "6" >>, << "0" >> }

\* the definitions the specification lets a behaviour add
MaxAdded == 2

InitLibrary == Load(SavedBox)

CanAdd == Len(objectLibrary) < Len(SavedBox.library) + MaxAdded

NextLibrary ==
    \/ CanAdd /\ \E name \in { << "x" >>, << " " >> }, lf \in FeetTexts, li \in InchesTexts,
                    wf \in FeetTexts, wi \in InchesTexts :
                    handleManualAddItem(name, lf, li, wf, wi) /\ Observe("handleManualAddItem", 0)
    \/ CanAdd /\ \E rows \in SeqsUpTo(CsvRows, MaxRows) :
                    handleCSVUpload(rows) /\ Observe("handleCSVUpload", 0)
    \/ CanImport /\ handleImportJSON(WrappedFile) /\ Observe("handleImportJSON", 0)
    \/ readerOnload /\ Observe("readerOnload", 0)

SpecLibrary == InitLibrary /\ [][NextLibrary]_vars

\* C26: every definition of the object library has width > 0 and length > 0.
C26_LibraryDimensionsPositive ==
    \A i \in DOMAIN objectLibrary :
        objectLibrary[i].width > 0 /\ objectLibrary[i].length > 0

----------------------------------------------------------------------------
\* Where findSnapTarget may put a point, checked under SpecSnap.

\* the objects of the active room whose definition is in the library
DefinedObjects ==
    { o \in { activeRoom.objects[i] : i \in DOMAIN activeRoom.objects } :
        FindDef(objectLibrary, o.definitionId) # 0 }

FootprintOf(o) == getObjectRect(o, objectLibrary[FindDef(objectLibrary, o.definitionId)])

\* the x of the ends of the boundary edges and of the left and right sides of the objects
EdgeXs ==
    IF ~ HasActiveRoom THEN {}
    ELSE { activeRoom.points[i].x : i \in DOMAIN activeRoom.points }
         \cup { FootprintOf(o).x : o \in DefinedObjects }
         \cup { FootprintOf(o).x + FootprintOf(o).width : o \in DefinedObjects }

EdgeYs ==
    IF ~ HasActiveRoom THEN {}
    ELSE { activeRoom.points[i].y : i \in DOMAIN activeRoom.points }
         \cup { FootprintOf(o).y : o \in DefinedObjects }
         \cup { FootprintOf(o).y + FootprintOf(o).height : o \in DefinedObjects }

\* C29: each coordinate findSnapTarget returns is at most 0.5 ft from the raw
\* coordinate, and is a whole number of feet or the coordinate of a boundary
\* edge or of an object side of the active room.
C29_SnapStaysNear ==
    SnapCallDone =>
        /\ 2 * Abs(ret.val.x - call.x) <= UNITS_PER_FOOT
        /\ 2 * Abs(ret.val.y - call.y) <= UNITS_PER_FOOT
        /\ ret.val.x % UNITS_PER_FOOT = 0 \/ ret.val.x \in EdgeXs
        /\ ret.val.y % UNITS_PER_FOOT = 0 \/ ret.val.y \in EdgeYs

\* x went to a side that is off the grid, y half a foot up to the grid
C29_Witness ==
    /\ SnapCallDone
    /\ ret.val.x % UNITS_PER_FOOT # 0
    /\ ret.val.x # call.x
    /\ ret.val.x \in EdgeXs
    /\ ret.val.y - call.y = 6

----------------------------------------------------------------------------
\* formatFeetInches (utils.ts), on lengths given in quarters of an inch.

\* quarters of an inch in a foot
QuartersPerFoot == 4 * UNITS_PER_FOOT

DigitChar(d) ==
    CASE d = 0 -> "0" [] d = 1 -> "1" [] d = 2 -> "2" [] d = 3 -> "3" [] d = 4 -> "4"
      [] d = 5 -> "5" [] d = 6 -> "6" [] d = 7 -> "7" [] d = 8 -> "8" [] d = 9 -> "9"

\* the decimal text of a natural number, as a template literal prints it
RECURSIVE NumberText(_)
NumberText(n) ==
    IF n < 10 THEN << DigitChar(n) >> ELSE Append(NumberText(n \div 10), DigitChar(n % 10))

\* formatFeetInches(quarters / 48): Math.round rounds a half upward
formatFeetInches(quarters) ==
    LET feet == quarters \div QuartersPerFoot
        rest == quarters - feet * QuartersPerFoot
        inches == (2 * rest + 4) \div 8
    IN  NumberText(feet) \o << "'" >> \o NumberText(inches) \o << "\"" >>

\* the lengths formatted: 0 to MaxQuarters quarters of an inch
MaxQuarters == 100

InitFormat ==
    /\ AppIdle(<<>>)
    /\ call \in { [fn |-> "formatFeetInches", quarters |-> q] : q \in 0..MaxQuarters }
    /\ ret = NoRet

CallFormatFeetInches ==
    /\ call.fn = "formatFeetInches"
    /\ ~ ret.done
    /\ ret' = [done |-> TRUE, val |-> formatFeetInches(call.quarters)]
    /\ UNCHANGED <<appVars, call>>

NextFormat == CallFormatFeetInches

SpecFormat == InitFormat /\ [][NextFormat]_vars

\* C30: the text formatFeetInches prints for a length >= 0 is f'i" with
\* 0 <= i <= 11, and f feet i inches is within half an inch of the length.
C30_InchesBelowTwelve ==
    (call.fn = "formatFeetInches" /\ ret.done) =>
        \E f \in 0..(MaxQuarters \div QuartersPerFoot + 1), i \in 0..11 :
            /\ ret.val = NumberText(f) \o << "'" >> \o NumberText(i) \o << "\"" >>
            /\ Abs(4 * (f * UNITS_PER_FOOT + i) - call.quarters) <= 2


----------------------------------------------------------------------------
\* Export and import of a room file. A JSON text is the tree of its values:
\* an object is the list of its members in the order they are written, a
\* number is the characters of its literal, a string is kept as it is.

NumberKeys == { "x", "y", "rotation", "width", "length", "fontSize" }

ArrayKeys == { "points", "objects", "tempWalls", "labels", "library" }

ObjectKeys == { "room", "start", "end" }

\* the keys of the exported data, in the order their objects are built with
KeyOrder ==
    << "room", "library", "id", "name", "definitionId", "text", "type", "points", "objects",
       "tempWalls", "labels", "start", "end", "x", "y", "width", "length", "rotation",
       "fontSize" >>

\* as NumberOf, but the sign of the literal is not read
NumberOfUnsigned(text) ==
    IF text[1] = "-" THEN parseInt(text, 2, Len(text)) ELSE parseInt(text, 1, Len(text))

\* the number a literal of JSON.parse denotes
NumberOf(text) ==
    IF text[1] = "-" THEN 0 - parseInt(text, 2, Len(text)) ELSE parseInt(text, 1, Len(text))

\* the literal JSON.stringify writes for a finite number
NumberLiteral(n) == IF n < 0 THEN << "-" >> \o NumberText(0 - n) ELSE NumberText(n)

\* JSON.stringify of the value under key (of an array element or of the
\* whole data when key is empty); a property that is undefined is not written
RECURSIVE JSONstringify(_, _)
JSONstringify(key, value) ==
    IF key \in NumberKeys THEN [json |-> "number", text |-> NumberLiteral(value)]
    ELSE IF key \in ArrayKeys
    THEN [json |-> "array", items |-> [i \in DOMAIN value |-> JSONstringify("", value[i])]]
    ELSE IF key \in ObjectKeys \cup {""}
    THEN LET keys == SelectSeq(KeyOrder, LAMBDA k : k \in DOMAIN value)
         IN  [json |-> "object",
              members |-> [i \in DOMAIN keys |->
                              << keys[i], JSONstringify(keys[i], value[keys[i]]) >>]]
    ELSE [json |-> "string", text |-> value]

\* JSON.parse: of two members with one key the later one counts
RECURSIVE JSONparse(_)
JSONparse(data) ==
    CASE data.json = "number" -> NumberOf(data.text)
      [] data.json = "string" -> data.text
      [] data.json = "array" -> [i \in DOMAIN data.items |-> JSONparse(data.items[i])]
      [] data.json = "object" ->
            [k \in { data.members[i][1] : i \in DOMAIN data.members } |->
                LET last == CHOOSE i \in DOMAIN data.members :
                                /\ data.members[i][1] = k
                                /\ \A j \in DOMAIN data.members :
                                       data.members[j][1] = k => j <= i
                IN  JSONparse(data.members[last][2])]

\* the export button: the active room and the library are written to a file
handleExportJSON ==
    /\ Alive
    /\ HasActiveRoom
    /\ download' = [saved |-> TRUE,
                    name |-> << activeRoom.name, ".json" >>,
                    data |-> JSONstringify("", [room |-> activeRoom, library |-> objectLibrary])]
    /\ UNCHANGED <<rooms, history, historyIndex, activeRoomId, objectLibrary, mousePos,
                   idCounter, reader, mode, drawingPoints, call, ret>>

\* what reader.onload makes of the text of a file: importedData.room &&
\* importedData.library tells an exported file from a bare room
ImportedData(text) ==
    LET importedData == JSONparse(text)
    IN  IF "room" \in DOMAIN importedData /\ "library" \in DOMAIN importedData
        THEN [wrapped |-> TRUE, room |-> importedData.room, library |-> importedData.library]
        ELSE [wrapped |-> FALSE, room |-> importedData, library |-> <<>>]

Label(i, t, px, py) == [id |-> i, text |-> t, x |-> px, y |-> py, fontSize |-> Ft(1)]

\* localStorage holds a room with a boundary, a box, a wall that starts left
\* of the origin and a label
SavedLabelled ==
    [rooms |-> << [id |-> 1, name |-> <<"Office", 1>>,
                   points |-> << Pt(0, 0), Pt(Ft(10), 0), Pt(Ft(10), Ft(10)), Pt(0, Ft(10)) >>,
                   objects |-> << Obj(3, "d2", Ft(6), Ft(2), 90) >>,
                   tempWalls |-> << Wall(4, 0 - 6, Ft(3), Ft(2), Ft(3)) >>,
                   labels |-> << Label(2, <<"Desk">>, Ft(1), 0 - Ft(1)) >>] >>,
     library |-> <<DefaultDoor, Box>>]

InitExport == Load(SavedLabelled)

\* what the specification has noted under field (nothing before the first handler)
Noted(field) == IF lastEvent.op = "load" THEN NoDownload ELSE lastEvent.arg[field]

\* the specification notes the data of the last export, and of the export
\* whose file the reader was given
ObserveExport(op) ==
    lastEvent' = [op |-> op,
                  arg |-> [exported |-> IF op = "handleExportJSON"
                                        THEN [saved |-> TRUE, room |-> activeRoom,
                                              library |-> objectLibrary]
                                        ELSE Noted("exported"),
                           picked |-> IF op = "handleImportJSON" THEN Noted("exported")
                                      ELSE Noted("picked")]]

MaxExportIds == 2

CanExportCreate == idCounter < MaxOf(UsedIds(SavedLabelled.rooms)) + MaxExportIds

NextExport ==
    \/ handleExportJSON /\ ObserveExport("handleExportJSON")
    \/ download.saved /\ CanRecord /\ CanExportCreate
         /\ handleImportJSON(ImportedData(download.data)) /\ ObserveExport("handleImportJSON")
    \/ readerOnload /\ ObserveExport("readerOnload")
    \/ CanRecord /\ DragAway /\ ObserveExport("handleObjectDragEnd")
    \/ CanRecord /\ \E i \in DOMAIN rooms :
                       handleDeleteRoom(rooms[i].id) /\ ObserveExport("handleDeleteRoom")
    \/ CanExportCreate
         /\ handleManualAddItem(<< "x" >>, << "2" >>, << "6" >>, << "2" >>, << "0" >>)
         /\ ObserveExport("handleManualAddItem")
    \* one undo, from the newest snapshot, while the reader is at work
    \/ reader.busy /\ historyIndex = Len(history) - 1 /\ undo /\ ObserveExport("undo")

SpecExport == InitExport /\ [][NextExport]_vars

\* C21: when the import of an exported file completes, the room list ends with
\* a room that differs from the exported room in its id only (same name,
\* points, objects, tempWalls and labels), and the library is as it was.
C21_ExportImportRoundTrip ==
    [][ ImportDone =>
          LET exported == lastEvent.arg.picked.room
              imported == rooms'[Len(rooms')]
          IN  /\ imported.id # exported.id
              /\ imported.points = exported.points
              /\ imported.objects = exported.objects
              /\ imported.tempWalls = exported.tempWalls
              /\ imported.labels = exported.labels
              /\ [imported EXCEPT !.id = exported.id] = exported
              /\ objectLibrary' = objectLibrary ]_vars

C21_Witness ==
    /\ lastEvent.op = "readerOnload"
    /\ Len(rooms) = 2
    /\ rooms[2].labels # <<>>
    /\ rooms[2].tempWalls # <<>>
    /\ rooms[2].objects # rooms[1].objects
    /\ Len(objectLibrary) > Len(lastEvent.arg.picked.library)

====
